---- MODULE Spec2Model ----
\* Model of the SSVEP acquisition-to-decision core of theft-detector:
\*   src/ssvep/eeg_stream.py      EEGStream (connect, _on_chunk, get_recent)
\*   src/ssvep/ssvep_analysis.py  get_smoothed_selection
\*   src/ssvep/app.py             main loop (history, smoothing)
\* Time is counted in sample periods (dt = 1 / sampling_rate); durations passed
\* to get_recent are counted in half seconds, so that int(seconds * rate) and
\* the half-second test of the main loop stay integer arithmetic.
EXTENDS Integers, Sequences, FiniteSets, TLC

----------------------------------------------------------------------------
\* Bounds of the model (configuration values scaled down, and caps on inputs).

\* eeg.sampling_rate of the configuration (250 in production).
SamplingRate == 3
\* eeg.buffer_seconds of the configuration (60 by default).
BufferSeconds == 1
\* eeg.raw_to_uv_scale of the configuration, as an integer factor.
RawToUvScale == 2
\* Largest chunk_size the device delivers.
MaxChunk == 2
\* Cap on the samples the device delivers in one run of the model.
MaxSamples == 4
\* Cap on the readings of time.time(), in sample periods.
MaxWall == 1
\* Largest duration asked of get_recent, in half seconds.
MaxHalfSeconds == 2
\* stimulus.analysis_window_seconds of the configuration, in half seconds.
WindowHalfSeconds == 2
\* Length the main loop trims the history to (25 in app.py, scaled down).
HistoryCap == 3
\* Cap on the classification cycles that score a window in one run.
MaxCycles == 5
\* Scores are whole numbers from 0 to MaxScore.
MaxScore == 1
\* Target lists have up to MaxTargets frequencies.
MaxTargets == 3
\* The rest phase of a calibration retains up to MaxRestWindows scores.
MaxRestWindows == 2
\* rest_margin_std is a whole number from 0 to MaxMargin.
MaxMargin == 2
\* np.std returns a whole number of half floors from 0 to MaxStd.
MaxStd == 3
\* The small conditioned windows have up to MaxRows samples.
MaxRows == 3
\* The values of the small conditioned windows are whole numbers up to MaxAmp.
MaxAmp == 1
\* The noise of the synthetic windows has the seeds 0 to MaxSeed.
MaxSeed == 2
\* cca_components is a whole number from 1 to MaxComponents.
MaxComponents == 2
\* The SVD returns up to MaxCorr singular values, min(n_channels, 2 * n_harmonics).
MaxCorr == 2
\* A singular value is a whole number of halves from 0 to MaxSingular.
MaxSingular == 3
\* The band-limiting step is called with fs from 1 to MaxFs Hz.
MaxFs == 4
\* low_hz and high_hz are whole numbers from -1 to MaxHz.
MaxHz == 3
\* Cap on the calls of send_marker that reach the backend in one run.
MaxMarkers == 5
\* generate_trials is called with 2 to MaxTrials trials in the S1 sequence.
MaxTrials == 9
\* num_blocks is 1 to MaxBlocks.
MaxBlocks == 7
\* Cap on the samples the device delivers to the BrainAccessHandler in one run.
MaxHandlerSamples == 4
\* sampling_rate * buffer_size of the BrainAccessHandler, the maxlen of its
\* deques.
HandlerMaxLen == 3

----------------------------------------------------------------------------
\* Configuration and program constants.

\* len(freqs_hz): the left, centre and right targets.
NumTargets == 3
\* The index detect_ssvep_multi returns for rest.
RestIdx == 0 - 1
\* The label the main loop stores in the history for rest.
RestLabel == 3
\* n_classes of get_smoothed_selection when the caller passes none.
DefaultNClasses == 2
\* Stands for the None get_smoothed_selection returns: no stable selection.
Undecided == 0 - 2
\* rest_threshold = None
NoThreshold == 0 - 1
\* The value 1e-6 that replaces a rest_std <= 0, in the unit of the scores of
\* a calibration, which is half of it.
RestStdFloor == 2
\* The upper limit 1.0 of np.clip(s, 0.0, 1.0), in halves.
ClipHigh == 2
\* The lower limit 0.0 of np.clip(s, 0.0, 1.0).
ClipLow == 0
\* The least normalized low cutoff, 0.01, in hundredths.
LowClamp == 1
\* The largest normalized high cutoff, 0.99, in hundredths.
HighClamp == 99

\* eeg.channels: O1 is in the name-to-index table, Pz is not.
channels == <<"O1", "Pz">>

DEFAULT_CHANNEL_MAPPING ==
    ("F3" :> 0) @@ ("F4" :> 1) @@ ("C3" :> 2) @@ ("C4" :> 3) @@
    ("P3" :> 4) @@ ("P4" :> 5) @@ ("O1" :> 6) @@ ("O2" :> 7)

\* dict.get(key, default)
Get(d, key, default) ==
    IF key \in DOMAIN d THEN d[key] ELSE default

\* d[key] = value on a dict
Put(d, key, value) ==
    [k \in DOMAIN d \cup {key} |-> IF k = key THEN value ELSE d[k]]

EmptyDict == [k \in {} |-> 0]

Range(s) == {s[k] : k \in DOMAIN s}

Min(a, b) == IF a <= b THEN a ELSE b

\* self.channel_mapping after __init__: the configured channels the table knows.
channel_mapping ==
    [ch \in {c \in Range(channels) : c \in DOMAIN DEFAULT_CHANNEL_MAPPING}
        |-> DEFAULT_CHANNEL_MAPPING[ch]]

\* max_samples = sampling_rate * buffer_seconds
max_samples == SamplingRate * BufferSeconds

\* len(chunk_arrays): the device delivers one array per enabled physical
\* channel, and _setup_channels enables set(self.channel_mapping.values()).
NumCols == Cardinality({channel_mapping[c] : c \in DOMAIN channel_mapping})

\* The value the device delivers in stream column col for its s-th sample
\* (never 0, so that a zero fill is recognisable).
DevVal(col, s) == 10 * s + col + 1

----------------------------------------------------------------------------
VARIABLES
    \* EEGStream
    chunk_index_map,   \* self.chunk_index_map
    is_connected,      \* self.is_connected
    data,              \* self._data, deque(maxlen = max_samples)
    timestamps,        \* self._timestamps, deque(maxlen = max_samples)
    \* connect()
    cpc,               \* position in connect and disconnect: new, build, done,
                       \* failed; stopped, closed
    bk,                \* index of the channel _build_chunk_index_map is at
    \* device and _on_chunk (callback thread)
    sent,              \* samples the device has delivered in chunks so far
    wall,              \* latest reading of time.time()
    wpc,               \* position in _on_chunk: idle, row, append_data, append_ts
    chunk_first,       \* device sample number before the chunk in hand
    chunk_size,        \* chunk_size of the chunk in hand
    base_t,            \* base_t of the chunk in hand
    i,                 \* loop index i of _on_chunk
    row,               \* the row under construction
    row_conn,          \* history: is_connected when the row was begun
    \* get_recent (consumer thread)
    rpc,               \* position in get_recent: idle, len, copy, ret
    seconds2,          \* the argument seconds, in half seconds
    n,                 \* the local n
    result,            \* the value returned: [ok |-> FALSE] stands for None
    \* history variables
    log,               \* every entry appended to data, in order
    newest_at_call,    \* Len(log) when the get_recent in hand was called
    newest_at_copy,    \* Len(log) when the get_recent in hand copied the deque
    \* main() of app.py
    mpc,               \* position in main: boot, loop, got
    rest_enabled,      \* stimulus.rest_enabled
    rest_threshold_set,\* rest_threshold is not None
    smooth_count,      \* min_agreements passed to get_smoothed_selection
    history,           \* history
    detected_idx,      \* detected_idx (Undecided for None)
    cycles,            \* history: labels appended to history so far
    m_ok,              \* data of the main loop: is not None
    m_rows,            \* data of the main loop: data.shape[0]
    m_size,            \* history: len(self._data) when data was read
    \* one call of a function of ssvep_analysis.py or of _run_calibration
    apc,               \* position in the call
    args,              \* the arguments of the call
    ret,               \* the value returned
    scores,            \* the local scores
    phase,             \* _run_calibration: index of the phase in hand
    rest_max_scores,   \* _run_calibration: rest_max_scores
    \* the device core library, as EEGStream sees it
    core,              \* initialized: self._core_initialized;
                       \* open: the last of ba_init() and ba_close() was ba_init()
    \* session package
    sender,            \* the LSLMarkerSender
    handler            \* the BrainAccessHandler and the threads that call it

vars == <<chunk_index_map, is_connected, data, timestamps, cpc, bk, sent, wall,
          wpc, chunk_first, chunk_size, base_t, i, row, row_conn,
          rpc, seconds2, n, result, log, newest_at_call, newest_at_copy,
          mpc, rest_enabled, rest_threshold_set, smooth_count, history,
          detected_idx, cycles, m_ok, m_rows, m_size,
          apc, args, ret, scores, phase, rest_max_scores,
          core, sender, handler>>

connectVars == <<chunk_index_map, is_connected, cpc, bk, core>>
writerVars == <<data, timestamps, sent, wall, wpc, chunk_first, chunk_size,
                base_t, i, row, row_conn, log>>
readerVars == <<rpc, seconds2, n, result, newest_at_call, newest_at_copy>>
mainVars == <<mpc, rest_enabled, rest_threshold_set, smooth_count, history,
              detected_idx, cycles, m_ok, m_rows, m_size>>

analysisVars == <<apc, args, ret, scores, phase, rest_max_scores>>
sessionVars == <<sender, handler>>

None == [ok |-> FALSE, win |-> <<>>]

----------------------------------------------------------------------------
\* collections.deque(maxlen = cap).append(x): the oldest entry is dropped
\* when the deque is full.
DequeAppendKeepAll(d, x, cap) ==
    Append(d, x)

DequeAppend(d, x, cap) ==
    IF cap = 0 THEN d
    ELSE IF Len(d) < cap THEN Append(d, x)
    ELSE Append(Tail(d), x)

\* s[-k:] for k >= 1
LastNOffByOne(s, k) ==
    IF k + 1 >= Len(s) THEN s ELSE SubSeq(s, Len(s) - k, Len(s))

LastN(s, k) ==
    IF k >= Len(s) THEN s ELSE SubSeq(s, Len(s) - k + 1, Len(s))

\* list(self._data): a copy of the deque, made in one step of the interpreter.
ListOfTorn(d) ==
    IF Len(d) >= 2 THEN SubSeq(d, 1, Len(d) - 2) \o <<d[Len(d)]>> ELSE d

ListOf(d) ==
    [k \in 1..Len(d) |-> d[k]]

\* int(seconds * self.sampling_rate), seconds given in half seconds (>= 0).
RequestedSamples(h) ==
    (h * SamplingRate) \div 2

\* arr * self.raw_to_uv_scale, skipped when the scale is 1.
Scaled(r) ==
    IF RawToUvScale # 1 THEN [k \in 1..Len(r) |-> r[k] * RawToUvScale] ELSE r

\* np.array(list(self._data)[-n:]) scaled: the window get_recent returns.  Each
\* entry keeps seq, the position of the sample in the append order.
WindowOf(d, k) ==
    LET arr == LastN(ListOf(d), k)
    IN  [j \in 1..Len(arr) |-> [seq |-> arr[j].seq, row |-> Scaled(arr[j].row)]]

----------------------------------------------------------------------------
\* EEGStream.__init__ and the locals of main() before the loop.
StreamInit ==
    /\ chunk_index_map = EmptyDict
    /\ is_connected = FALSE
    /\ data = <<>>
    /\ timestamps = <<>>
    /\ cpc = "new"
    /\ bk = 1
    /\ sent = 0
    /\ wall = 0
    /\ wpc = "idle"
    /\ chunk_first = 0
    /\ chunk_size = 0
    /\ base_t = 0
    /\ i = 0
    /\ row = <<>>
    /\ row_conn = FALSE
    /\ rpc = "idle"
    /\ seconds2 = 0
    /\ n = 0
    /\ result = None
    /\ log = <<>>
    /\ newest_at_call = 0
    /\ newest_at_copy = 0
    /\ mpc = "boot"
    /\ rest_enabled = FALSE
    /\ rest_threshold_set = FALSE
    /\ smooth_count = 2
    /\ history = <<>>
    /\ detected_idx = Undecided
    /\ cycles = 0
    /\ m_ok = FALSE
    /\ m_rows = 0
    /\ m_size = 0
    /\ core = [initialized |-> FALSE, open |-> FALSE]

\* No call of the analysis functions in hand.
AnalysisIdle ==
    /\ apc = "idle"
    /\ args = <<>>
    /\ ret = <<>>
    /\ scores = <<>>
    /\ phase = 0
    /\ rest_max_scores = <<>>

\* No LSLMarkerSender and no BrainAccessHandler constructed.
SessionIdle ==
    /\ sender = <<>>
    /\ handler = <<>>

Init ==
    /\ StreamInit
    /\ AnalysisIdle
    /\ SessionIdle

----------------------------------------------------------------------------
\* connect(), main thread.

\* "if not self._core_initialized: ba_init(); self._core_initialized = True";
\* a BrainAccessException that says "already initialized" sets the flag too.
CoreInit(c) ==
    IF c.initialized THEN c ELSE [initialized |-> TRUE, open |-> TRUE]

\* "if self._core_initialized and BRAINACCESS_AVAILABLE: ba_close()"; the flag
\* is not assigned in disconnect().
CoreClose(c) ==
    IF c.initialized THEN [c EXCEPT !.open = FALSE] ELSE c

\* connect() up to start_stream(): the core is initialised, a device is found
\* and connected, the channels are enabled, the callback is registered and the
\* stream is started.  _build_chunk_index_map then clears the map.
ConnectStart ==
    /\ cpc = "new"
    /\ cpc' = "build"
    /\ bk' = 1
    /\ chunk_index_map' = EmptyDict
    /\ core' = CoreInit(core)
    /\ UNCHANGED <<is_connected>>
    /\ UNCHANGED writerVars
    /\ UNCHANGED readerVars
    /\ UNCHANGED mainVars
    /\ UNCHANGED analysisVars
    /\ UNCHANGED sessionVars

\* connect() returning False: the library is missing, no device is found, or a
\* call before start_stream() raised.
ConnectFail ==
    /\ cpc = "new"
    /\ cpc' = "failed"
    /\ core' \in {core, CoreInit(core)}
    /\ UNCHANGED <<chunk_index_map, is_connected, bk>>
    /\ UNCHANGED writerVars
    /\ UNCHANGED readerVars
    /\ UNCHANGED mainVars
    /\ UNCHANGED analysisVars
    /\ UNCHANGED sessionVars

\* One turn of the loop of _build_chunk_index_map: get_channel_index either
\* returns a stream column or raises, and a raise is swallowed.
BuildStep ==
    /\ cpc = "build"
    /\ bk <= Len(channels)
    /\ LET ch == channels[bk]
           phys == Get(channel_mapping, ch, -1)
       IN  IF phys >= 0
           THEN \/ \E col \in 0..(NumCols - 1) :
                      chunk_index_map' = Put(chunk_index_map, ch, col)
                \/ chunk_index_map' = chunk_index_map
           ELSE chunk_index_map' = chunk_index_map
    /\ bk' = bk + 1
    /\ UNCHANGED <<is_connected, cpc, core>>
    /\ UNCHANGED writerVars
    /\ UNCHANGED readerVars
    /\ UNCHANGED mainVars
    /\ UNCHANGED analysisVars
    /\ UNCHANGED sessionVars

\* self.is_connected = True; return True
ConnectReturn ==
    /\ cpc = "build"
    /\ bk > Len(channels)
    /\ is_connected' = TRUE
    /\ cpc' = "done"
    /\ UNCHANGED <<chunk_index_map, bk, core>>
    /\ UNCHANGED writerVars
    /\ UNCHANGED readerVars
    /\ UNCHANGED mainVars
    /\ UNCHANGED analysisVars
    /\ UNCHANGED sessionVars

----------------------------------------------------------------------------
\* disconnect(), main thread.

\* disconnect() with self._data.clear() and self._timestamps.clear() added.
DisconnectClear ==
    /\ cpc \in {"done", "stopped"}
    /\ is_connected
    /\ \/ /\ is_connected' = FALSE
          /\ cpc' = "closed"
          /\ core' = CoreClose(core)
       \/ /\ cpc = "done"
          /\ cpc' = "stopped"
          /\ is_connected' = is_connected
          /\ core' = core
    /\ data' = <<>>
    /\ timestamps' = <<>>
    /\ UNCHANGED <<chunk_index_map, bk>>
    /\ UNCHANGED <<sent, wall, wpc, chunk_first, chunk_size, base_t, i, row,
                   row_conn, log>>
    /\ UNCHANGED readerVars
    /\ UNCHANGED mainVars
    /\ UNCHANGED analysisVars
    /\ UNCHANGED sessionVars

\* disconnect() past "if not self.is_connected: return".  Either the stream
\* is stopped, the manager disconnected and is_connected set to False (a raise
\* of stop_stream() is swallowed and the manager disconnected all the same);
\* or stop_stream() returns and self._eeg_manager.disconnect() raises, which
\* the outer except swallows before is_connected is assigned.  Nothing in
\* either path refers to self._data or self._timestamps.
Disconnect ==
    /\ cpc \in {"done", "stopped"}
    /\ is_connected
    /\ \/ /\ is_connected' = FALSE
          /\ cpc' = "closed"
          /\ core' = CoreClose(core)
       \/ /\ cpc = "done"
          /\ cpc' = "stopped"
          /\ is_connected' = is_connected
          /\ core' = core
    /\ UNCHANGED <<chunk_index_map, bk>>
    /\ UNCHANGED writerVars
    /\ UNCHANGED readerVars
    /\ UNCHANGED mainVars
    /\ UNCHANGED analysisVars
    /\ UNCHANGED sessionVars

\* connect() called again after a disconnect() that completed: is_connected
\* is False, self._core_initialized is still True, so ba_init() is skipped;
\* EEGManager(), ba_scan(), connect(), set_callback_chunk() and
\* start_stream() return, and _build_chunk_index_map clears the map.  What
\* the library does with these calls after ba_close() is not in this
\* repository: they return here and raise in ReconnectFail.
Reconnect ==
    /\ cpc = "closed"
    /\ ~is_connected
    /\ cpc' = "build"
    /\ bk' = 1
    /\ chunk_index_map' = EmptyDict
    /\ core' = CoreInit(core)
    /\ UNCHANGED <<is_connected>>
    /\ UNCHANGED writerVars
    /\ UNCHANGED readerVars
    /\ UNCHANGED mainVars
    /\ UNCHANGED analysisVars
    /\ UNCHANGED sessionVars

\* connect() called again after a disconnect() that completed, returning
\* False: no device is found or a call before start_stream() raised.
ReconnectFail ==
    /\ cpc = "closed"
    /\ ~is_connected
    /\ cpc' = "failed"
    /\ core' = CoreInit(core)
    /\ UNCHANGED <<chunk_index_map, is_connected, bk>>
    /\ UNCHANGED writerVars
    /\ UNCHANGED readerVars
    /\ UNCHANGED mainVars
    /\ UNCHANGED analysisVars
    /\ UNCHANGED sessionVars

----------------------------------------------------------------------------
\* _on_chunk(chunk_arrays, chunk_size), callback thread of the device.

\* The stream is started and the callback registered.
Streaming == cpc \in {"build", "done"}

\* The device calls back with a chunk; base_t = time.time().
OnChunkBegin ==
    /\ Streaming
    /\ wpc = "idle"
    /\ \E size \in 1..MaxChunk :
          /\ sent + size <= MaxSamples
          /\ chunk_size' = size
          /\ sent' = sent + size
    /\ \E t \in wall..MaxWall :
          /\ base_t' = t
          /\ wall' = t
    /\ chunk_first' = sent
    /\ i' = 0
    /\ row' = <<>>
    /\ row_conn' = is_connected
    /\ wpc' = "row"
    /\ UNCHANGED <<data, timestamps, log>>
    /\ UNCHANGED connectVars
    /\ UNCHANGED readerVars
    /\ UNCHANGED mainVars
    /\ UNCHANGED analysisVars
    /\ UNCHANGED sessionVars

\* The value _on_chunk puts in the row for channel ch at loop index idx.
RowValueDefaultZero(ch, idx) ==
    LET ci == Get(chunk_index_map, ch, 0)
    IN  IF 0 <= ci /\ ci < NumCols /\ idx < chunk_size
        THEN DevVal(ci, chunk_first + idx + 1)
        ELSE 0

RowValue(ch, idx) ==
    LET ci == Get(chunk_index_map, ch, -1)
    IN  IF 0 <= ci /\ ci < NumCols /\ idx < chunk_size
        THEN DevVal(ci, chunk_first + idx + 1)
        ELSE 0

\* One turn of "for ch in self.channels".
OnChunkRow ==
    /\ wpc = "row"
    /\ Len(row) < Len(channels)
    /\ row' = Append(row, RowValue(channels[Len(row) + 1], i))
    /\ wpc' = IF Len(row) + 1 = Len(channels) THEN "append_data" ELSE "row"
    /\ UNCHANGED <<data, timestamps, sent, wall, chunk_first, chunk_size,
                   base_t, i, row_conn, log>>
    /\ UNCHANGED connectVars
    /\ UNCHANGED readerVars
    /\ UNCHANGED mainVars
    /\ UNCHANGED analysisVars
    /\ UNCHANGED sessionVars

\* The entry self._data.append(row) stores.
NewEntry ==
    [seq |-> Len(log) + 1, conn |-> row_conn, row |-> row]

\* self._data.append(row), made to wait until no get_recent is in hand.
OnChunkAppendDataLocked ==
    /\ wpc = "append_data"
    /\ rpc = "idle"
    /\ data' = DequeAppend(data, NewEntry, max_samples)
    /\ log' = Append(log, NewEntry)
    /\ wpc' = "append_ts"
    /\ UNCHANGED <<timestamps, sent, wall, chunk_first, chunk_size, base_t, i,
                   row, row_conn>>
    /\ UNCHANGED connectVars
    /\ UNCHANGED readerVars
    /\ UNCHANGED mainVars
    /\ UNCHANGED analysisVars
    /\ UNCHANGED sessionVars

\* self._data.append(row)
OnChunkAppendData ==
    /\ wpc = "append_data"
    /\ data' = DequeAppend(data, NewEntry, max_samples)
    /\ log' = Append(log, NewEntry)
    /\ wpc' = "append_ts"
    /\ UNCHANGED <<timestamps, sent, wall, chunk_first, chunk_size, base_t, i,
                   row, row_conn>>
    /\ UNCHANGED connectVars
    /\ UNCHANGED readerVars
    /\ UNCHANGED mainVars
    /\ UNCHANGED analysisVars
    /\ UNCHANGED sessionVars

\* self._timestamps.append(t), t = base_t + i * dt, and the next turn of
\* "for i in range(chunk_size)" or the return.
OnChunkAppendTs ==
    /\ wpc = "append_ts"
    /\ timestamps' = DequeAppend(timestamps, base_t + i, max_samples)
    /\ i' = i + 1
    /\ row' = <<>>
    /\ row_conn' = is_connected
    /\ wpc' = IF i + 1 < chunk_size THEN "row" ELSE "idle"
    /\ UNCHANGED <<data, sent, wall, chunk_first, chunk_size, base_t, log>>
    /\ UNCHANGED connectVars
    /\ UNCHANGED readerVars
    /\ UNCHANGED mainVars
    /\ UNCHANGED analysisVars
    /\ UNCHANGED sessionVars

----------------------------------------------------------------------------
\* get_recent(seconds), consumer thread; called only after connect() returned
\* True (app.py main).

\* connect() has returned True; disconnect() may have been called since.
Opened == cpc \in {"done", "stopped", "closed"}

\* The call, returning None for a buffer shorter than half a second.
GetRecentCheckHalfSecond ==
    /\ Opened
    /\ rpc = "idle"
    /\ \E h \in 0..MaxHalfSeconds : seconds2' = h
    /\ IF 2 * Len(data) < SamplingRate
       THEN rpc' = "ret"
       ELSE rpc' = "len"
    /\ n' = 0
    /\ result' = None
    /\ newest_at_call' = Len(log)
    /\ newest_at_copy' = 0
    /\ UNCHANGED connectVars
    /\ UNCHANGED writerVars
    /\ UNCHANGED mainVars
    /\ UNCHANGED analysisVars
    /\ UNCHANGED sessionVars

\* The call, and "if not self._data: return None, self.channels".
GetRecentCheck ==
    /\ Opened
    /\ rpc = "idle"
    /\ \E h \in 0..MaxHalfSeconds : seconds2' = h
    /\ IF data = <<>>
       THEN rpc' = "ret"
       ELSE rpc' = "len"
    /\ n' = 0
    /\ result' = None
    /\ newest_at_call' = Len(log)
    /\ newest_at_copy' = 0
    /\ UNCHANGED connectVars
    /\ UNCHANGED writerVars
    /\ UNCHANGED mainVars
    /\ UNCHANGED analysisVars
    /\ UNCHANGED sessionVars

\* n = min(int(seconds * self.sampling_rate), len(self._data)); if n <= 0: return None
GetRecentLen ==
    /\ rpc = "len"
    /\ n' = Min(RequestedSamples(seconds2), Len(data))
    /\ IF n' <= 0
       THEN /\ result' = None
            /\ rpc' = "ret"
       ELSE /\ result' = result
            /\ rpc' = "copy"
    /\ UNCHANGED <<seconds2, newest_at_call, newest_at_copy>>
    /\ UNCHANGED connectVars
    /\ UNCHANGED writerVars
    /\ UNCHANGED mainVars
    /\ UNCHANGED analysisVars
    /\ UNCHANGED sessionVars

\* arr = np.array(list(self._data)[-n:]); arr = arr * scale; return arr
GetRecentCopy ==
    /\ rpc = "copy"
    /\ result' = [ok |-> TRUE, win |-> WindowOf(data, n)]
    /\ newest_at_copy' = Len(log)
    /\ rpc' = "ret"
    /\ UNCHANGED <<seconds2, n, newest_at_call>>
    /\ UNCHANGED connectVars
    /\ UNCHANGED writerVars
    /\ UNCHANGED mainVars
    /\ UNCHANGED analysisVars
    /\ UNCHANGED sessionVars

\* The caller has taken the result.
GetRecentDone ==
    /\ rpc = "ret"
    /\ rpc' = "idle"
    /\ seconds2' = 0
    /\ n' = 0
    /\ result' = None
    /\ newest_at_call' = 0
    /\ newest_at_copy' = 0
    /\ UNCHANGED connectVars
    /\ UNCHANGED writerVars
    /\ UNCHANGED mainVars
    /\ UNCHANGED analysisVars
    /\ UNCHANGED sessionVars

----------------------------------------------------------------------------
\* The whole of _on_chunk as one step, as the main thread meets it between two
\* of its own steps.

\* The rows _on_chunk builds from a chunk of the given size, the map unchanged
\* meanwhile.
ChunkEntries(size) ==
    [j \in 1..size |->
        [seq |-> Len(log) + j,
         conn |-> is_connected,
         row |-> [c \in 1..Len(channels) |->
                    LET ci == Get(chunk_index_map, channels[c], -1)
                    IN  IF 0 <= ci /\ ci < NumCols /\ j - 1 < size
                        THEN DevVal(ci, sent + j)
                        ELSE 0]]]

RECURSIVE DequeExtend(_, _, _)
\* deque.append of every entry of es, in order.
DequeExtend(d, es, cap) ==
    IF es = <<>> THEN d
    ELSE DequeExtend(DequeAppend(d, Head(es), cap), Tail(es), cap)

OnChunk ==
    /\ Streaming
    /\ wpc = "idle"
    /\ \E size \in 1..MaxChunk :
          /\ sent + size <= MaxSamples
          /\ \E t \in wall..MaxWall :
                /\ base_t' = t
                /\ wall' = t
                /\ timestamps' = DequeExtend(timestamps,
                                     [j \in 1..size |-> t + j - 1], max_samples)
          /\ chunk_size' = size
          /\ sent' = sent + size
          /\ i' = size
          /\ data' = DequeExtend(data, ChunkEntries(size), max_samples)
          /\ log' = log \o ChunkEntries(size)
    /\ chunk_first' = sent
    /\ row' = <<>>
    /\ row_conn' = is_connected
    /\ wpc' = "idle"
    /\ UNCHANGED connectVars
    /\ UNCHANGED readerVars
    /\ UNCHANGED mainVars
    /\ UNCHANGED analysisVars
    /\ UNCHANGED sessionVars

----------------------------------------------------------------------------
\* get_recent(seconds) as one step: the value it returns when no callback runs
\* during the call.
GetRecent(h) ==
    IF data = <<>> THEN None
    ELSE LET k == Min(RequestedSamples(h), Len(data))
         IN  IF k <= 0 THEN None
             ELSE [ok |-> TRUE, win |-> WindowOf(data, k)]

----------------------------------------------------------------------------
\* get_smoothed_selection(history, min_agreements, n_classes)

\* The first c of range(classes) that all of recent equal, or Undecided.
FirstAgreed(recent, classes) ==
    LET hits == {c \in 0..(classes - 1) :
                    \A j \in 1..Len(recent) : recent[j] = c}
    IN  IF hits = {} THEN Undecided
        ELSE CHOOSE c \in hits : \A d \in hits : c <= d

\* n_classes left at its default.
SmoothedDefaultClasses(hist, min_agreements, n_classes) ==
    IF Len(hist) < min_agreements THEN Undecided
    ELSE FirstAgreed(LastN(hist, min_agreements), DefaultNClasses)

\* The length test left out: history[-min_agreements:] of a short history is
\* the whole history.
SmoothedNoLengthTest(hist, min_agreements, n_classes) ==
    IF hist = <<>> THEN Undecided
    ELSE FirstAgreed(LastN(hist, min_agreements), n_classes)

\* any() in place of all().
SmoothedAny(hist, min_agreements, n_classes) ==
    IF Len(hist) < min_agreements THEN Undecided
    ELSE LET recent == LastN(hist, min_agreements)
             hits == {c \in 0..(n_classes - 1) :
                         \E j \in 1..Len(recent) : recent[j] = c}
         IN  IF hits = {} THEN Undecided
             ELSE CHOOSE c \in hits : \A d \in hits : c <= d

get_smoothed_selection(hist, min_agreements, n_classes) ==
    IF Len(hist) < min_agreements THEN Undecided
    ELSE FirstAgreed(LastN(hist, min_agreements), n_classes)

----------------------------------------------------------------------------
\* detect_ssvep_multi(data, fs, freqs_hz, ..., rest_threshold)

\* The score lists of n_targets targets.
ScoreVectors(n_targets) == [1..n_targets -> 0..MaxScore]

\* The values a rest threshold takes: below, among and above the scores.
Thresholds == 0..(MaxScore + 1)

\* max(scores), scores not empty.
MaxOf(s) ==
    CHOOSE v \in Range(s) : \A w \in Range(s) : w <= v

\* int(np.argmax(scores)): the first position of the maximum, from 0.
ArgMax(s) ==
    (CHOOSE j \in 1..Len(s) :
        /\ s[j] = MaxOf(s)
        /\ \A k \in 1..(j - 1) : s[k] < MaxOf(s)) - 1

\* A maximum of 0 taken for rest, threshold or not.
DetectRestOnZero(size, n_targets, method_scores, threshold) ==
    IF size = 0 \/ n_targets = 0
    THEN [idx |-> 0, scores |-> [j \in 1..n_targets |-> 0]]
    ELSE [idx |-> IF MaxOf(method_scores) = 0 THEN RestIdx
                  ELSE ArgMax(method_scores),
          scores |-> method_scores]

\* size is data.size, n_targets is len(freqs_hz), method_scores is the list
\* the branch of the method computes for a window that is not empty (one
\* power_at_frequency per target, or the list of _detect_ssvep_multi_cca),
\* threshold is rest_threshold.
detect_ssvep_multi(size, n_targets, method_scores, threshold) ==
    IF size = 0 \/ n_targets = 0
    THEN [idx |-> 0, scores |-> [j \in 1..n_targets |-> 0]]
    ELSE [idx |-> IF /\ threshold # NoThreshold
                     /\ Len(method_scores) > 0
                     /\ MaxOf(method_scores) < threshold
                  THEN RestIdx
                  ELSE ArgMax(method_scores),
          scores |-> method_scores]

\* The calls of detect_ssvep_multi: an empty window or not, a target list,
\* the scores of the method, a threshold or None.
DetectInit ==
    /\ StreamInit
    /\ SessionIdle
    /\ apc = "ready"
    /\ args \in UNION {
           {[size |-> sz, n_targets |-> nt, method_scores |-> sc,
             rest_threshold |-> th] :
               sz \in 0..1, sc \in ScoreVectors(nt),
               th \in Thresholds \cup {NoThreshold}} : nt \in 0..MaxTargets}
    /\ ret = <<>>
    /\ scores = <<>>
    /\ phase = 0
    /\ rest_max_scores = <<>>

\* idx, scores = detect_ssvep_multi(...)
DetectCall ==
    /\ apc = "ready"
    /\ apc' = "done"
    /\ ret' = detect_ssvep_multi(args.size, args.n_targets,
                                 args.method_scores, args.rest_threshold)
    /\ scores' = ret'.scores
    /\ UNCHANGED <<args, phase, rest_max_scores>>
    /\ UNCHANGED connectVars
    /\ UNCHANGED writerVars
    /\ UNCHANGED readerVars
    /\ UNCHANGED mainVars
    /\ UNCHANGED sessionVars

DetectNext ==
    \/ DetectCall

DetectSpec == DetectInit /\ [][DetectNext]_vars

----------------------------------------------------------------------------
\* The power-sum branch of detect_ssvep_multi and power_at_frequency.  A
\* window is the sequence of its rows, a row the sequence of its channel
\* values: shape (n_samples, n_channels).  Frequencies are in Hz, tolerances
\* in half Hz.

\* The sum of f[lo], ..., f[hi], by halves.
RECURSIVE SumRange(_, _, _)
SumRange(f, lo, hi) ==
    IF lo > hi THEN 0
    ELSE IF lo = hi THEN f[lo]
    ELSE LET mid == (lo + hi) \div 2
         IN  SumRange(f, lo, mid) + SumRange(f, mid + 1, hi)

\* The sum of f[0], ..., f[m].
SumTo(f, m) == SumRange(f, 0, m)

\* filtered.shape[0] and filtered.shape[1]
NSamples(mat) == Len(mat)

NChannels(mat) == IF mat = <<>> THEN 0 ELSE Len(mat[1])

\* np.mean(filtered, axis=0): the window reduced along axis 0, the samples,
\* one value per channel; here the sum of each column, n_samples times its
\* mean, so that every power below is n_samples squared times numpy's,
\* which changes no comparison between scores and no score that is 0.
MeanAxis0(mat) ==
    [c \in 1..NChannels(mat) |->
        SumTo([t \in 0..(NSamples(mat) - 1) |-> mat[t + 1][c]],
              NSamples(mat) - 1)]

\* 2 * cos(2 * pi * j / len), a whole number for these lengths.
Cos2(len, j) ==
    CASE len = 1 -> 2
      [] len = 2 -> <<2, 0 - 2>>[(j % 2) + 1]
      [] len = 3 -> <<2, 0 - 1, 0 - 1>>[(j % 3) + 1]
      [] len = 4 -> <<2, 0, 0 - 2, 0>>[(j % 4) + 1]
      [] len = 6 -> <<2, 1, 0 - 1, 0 - 2, 0 - 1, 1>>[(j % 6) + 1]

\* Twice np.abs(np.fft.rfft(sig)) ** 2 at bin k: the sum over the pairs a, b
\* of sig[a] * sig[b] * 2 * cos(2 * pi * k * (a - b) / len).
PowerTwice(sig, k) ==
    LET len == Len(sig)
    IN  SumTo([ab \in 0..(len * len - 1) |->
                  sig[(ab \div len) + 1] * sig[(ab % len) + 1]
                      * Cos2(len, k * ((ab \div len) + len - (ab % len)))],
              len * len - 1)

\* band_power(f_target), f_target in half Hz: the bins k of
\* rfftfreq(n, 1 / fs), of frequency k * fs / n, within the tolerance.
BandPower(sig, fs, target2, tol2) ==
    LET len == Len(sig)
    IN  SumTo([k \in 0..(len \div 2) |->
                  IF /\ 2 * k * fs >= (target2 - tol2) * len
                     /\ 2 * k * fs <= (target2 + tol2) * len
                  THEN PowerTwice(sig, k) ELSE 0],
              len \div 2)

\* power_at_frequency(sig, fs, freq_hz, tol_hz, use_second_harmonic)
power_at_frequency(sig, fs, freq_hz, tol2, use_second_harmonic) ==
    IF Len(sig) = 0 THEN 0
    ELSE BandPower(sig, fs, 2 * freq_hz, tol2)
         + (IF use_second_harmonic
            THEN BandPower(sig, fs, 4 * freq_hz, tol2) ELSE 0)

\* The else branch of detect_ssvep_multi from ch_series on, on the window
\* the conditioning returned, with the index detect_ssvep_multi returns.
PowerSum(filtered, fs, freqs_hz, tol2, use_second_harmonic, threshold) ==
    LET ch_series == MeanAxis0(filtered)
        sc == [j \in 1..Len(freqs_hz) |->
                  power_at_frequency(ch_series, fs, freqs_hz[j], tol2,
                                     use_second_harmonic)]
        out == detect_ssvep_multi(NSamples(filtered) * NChannels(filtered),
                                  Len(freqs_hz), sc, threshold)
    IN  [idx |-> out.idx, scores |-> out.scores, ch_series |-> ch_series]

\* The small windows: Len(channels) channels, whole values.
SmallWindows ==
    UNION {[1..rows -> [1..Len(channels) -> 0..MaxAmp]] : rows \in 1..MaxRows}

\* 50 * sin(2 * pi * 10 * t / 250) for t = 0, ..., 24, rounded: one period of
\* a 10 Hz sinusoid of amplitude 50 sampled at 250 Hz.
SineTable ==
    <<0, 12, 24, 34, 42, 48, 50, 49, 45, 39, 29, 18, 6, 0 - 6, 0 - 18, 0 - 29,
      0 - 39, 0 - 45, 0 - 49, 0 - 50, 0 - 48, 0 - 42, 0 - 34, 0 - 24, 0 - 12>>

\* The synthetic window of the trial: the sinusoid on every channel plus a
\* noise of -1, 0 or 1 that depends on the sample, the channel and the seed.
SyntheticWindow(rows, cols, seed) ==
    [t \in 1..rows |->
        [c \in 1..cols |->
            SineTable[((t - 1) % 25) + 1] + ((seed + 2 * t + c) % 3) - 1]]

\* The trial of the power-sum detector: 250 Hz, targets 8, 10 and 12 Hz,
\* tolerance 0.5 Hz, half a second or a second of samples, and the channel
\* counts from 1 to 8 for which Cos2 is defined.
TrialInputs ==
    {[filtered |-> SyntheticWindow(rows, cols, seed), fs |-> 250,
      freqs_hz |-> <<8, 10, 12>>, tol2 |-> 1, use_second_harmonic |-> h2] :
        rows \in {125, 250}, cols \in {1, 2, 3, 4, 6}, seed \in 0..MaxSeed,
        h2 \in BOOLEAN}

\* Small windows at the sampling rate of the stream, targets 1 and 2 Hz.
SmallInputs ==
    {[filtered |-> w, fs |-> SamplingRate, freqs_hz |-> <<1, 2>>, tol2 |-> 1,
      use_second_harmonic |-> h2] : w \in SmallWindows, h2 \in BOOLEAN}

PowerInit ==
    /\ StreamInit
    /\ SessionIdle
    /\ apc = "ready"
    /\ args \in SmallInputs \cup TrialInputs
    /\ ret = <<>>
    /\ scores = <<>>
    /\ phase = 0
    /\ rest_max_scores = <<>>

\* idx, scores = detect_ssvep_multi(data, ..., method="fft"), from the
\* conditioned window on.
PowerCall ==
    /\ apc = "ready"
    /\ apc' = "done"
    /\ ret' = PowerSum(args.filtered, args.fs, args.freqs_hz, args.tol2,
                       args.use_second_harmonic, NoThreshold)
    /\ scores' = ret'.scores
    /\ UNCHANGED <<args, phase, rest_max_scores>>
    /\ UNCHANGED connectVars
    /\ UNCHANGED writerVars
    /\ UNCHANGED readerVars
    /\ UNCHANGED mainVars
    /\ UNCHANGED sessionVars

PowerNext ==
    \/ PowerCall

PowerSpec == PowerInit /\ [][PowerNext]_vars

----------------------------------------------------------------------------
\* _cca_correlation and _detect_ssvep_multi_cca.  The linear algebra is
\* numpy's and scipy's: the model takes as inputs which call raises, if any,
\* and the singular values the SVD returns, largest first.

\* The sequences of len values from 0 to top, largest first.
Descending(len, top) ==
    {sv \in [1..len -> 0..top] : \A j \in 1..(len - 1) : sv[j] >= sv[j + 1]}

\* What the numerical calls of one _cca_correlation do: fault names the call
\* that raises LinAlgError or ValueError ("none" if none does), sv is what
\* np.linalg.svd returns when it is reached and returns.
Outcomes(n_corr) ==
    {[fault |-> f, sv |-> sv] :
        f \in {"none", "sqrtm", "inv", "svd"}, sv \in Descending(n_corr, MaxSingular)}

\* For a window of zeros the ridge makes both covariances reg * I, Cxy is 0
\* and the singular values of M = 0 are 0.
ZeroOutcomes(n_corr) ==
    {[fault |-> "none", sv |-> [j \in 1..n_corr |-> 0]]}

\* np.clip(s, 0.0, 1.0), one value.
Clip(v) ==
    IF v < ClipLow THEN ClipLow ELSE IF v > ClipHigh THEN ClipHigh ELSE v

\* return s, the clip left out.
CcaCorrelationNoClip(outcome) ==
    IF outcome.fault \in {"sqrtm", "inv"} THEN <<0>>
    ELSE outcome.sv

\* The array _cca_correlation returns when no exception leaves it: [0.0]
\* from the except clause around sqrtm and inv, else the clipped values.
cca_correlation(outcome) ==
    IF outcome.fault \in {"sqrtm", "inv"} THEN <<0>>
    ELSE [j \in DOMAIN outcome.sv |-> Clip(outcome.sv[j])]

\* float(np.sum(r[:cca_components]))
SumFirst(r, cca_components) ==
    SumTo([j \in 0..(Min(cca_components, Len(r)) - 1) |-> r[j + 1]],
          Min(cca_components, Len(r)) - 1)

CcaInit ==
    /\ StreamInit
    /\ SessionIdle
    /\ apc = "ready"
    /\ args \in {[n_targets |-> nt, cca_components |-> k, n_corr |-> nc,
                   zero_window |-> z] :
                     nt \in 1..MaxTargets, k \in 1..MaxComponents,
                     nc \in 1..MaxCorr, z \in BOOLEAN}
    /\ ret = <<>>
    /\ scores = <<>>
    /\ phase = 0
    /\ rest_max_scores = <<>>

\* detect_ssvep_multi(..., method="cca") on a window that is not empty calls
\* _detect_ssvep_multi_cca: the window is conditioned and scores = [].
CcaEnter ==
    /\ apc = "ready"
    /\ apc' = "loop"
    /\ scores' = <<>>
    /\ UNCHANGED <<args, ret, phase, rest_max_scores>>
    /\ UNCHANGED connectVars
    /\ UNCHANGED writerVars
    /\ UNCHANGED readerVars
    /\ UNCHANGED mainVars
    /\ UNCHANGED sessionVars

\* One turn of the loop over freqs_hz: the reference is built and
\* _cca_correlation called.  An exception of np.linalg.svd is outside the try
\* of _cca_correlation and leaves it, _detect_ssvep_multi_cca and
\* detect_ssvep_multi; ret keeps the outcome and the array r of the turn.
CcaTarget ==
    /\ apc = "loop"
    /\ Len(scores) < args.n_targets
    /\ \E outcome \in (IF args.zero_window THEN ZeroOutcomes(args.n_corr)
                                            ELSE Outcomes(args.n_corr)) :
          IF outcome.fault = "svd"
          THEN /\ apc' = "raised"
               /\ ret' = [outcome |-> outcome, r |-> <<>>]
               /\ UNCHANGED scores
          ELSE LET r == cca_correlation(outcome)
               IN  /\ ret' = [outcome |-> outcome, r |-> r]
                   /\ scores' = Append(scores, SumFirst(r, args.cca_components))
                   /\ UNCHANGED apc
    /\ UNCHANGED <<args, phase, rest_max_scores>>
    /\ UNCHANGED connectVars
    /\ UNCHANGED writerVars
    /\ UNCHANGED readerVars
    /\ UNCHANGED mainVars
    /\ UNCHANGED sessionVars

\* idx = int(np.argmax(scores)); return idx, scores, and detect_ssvep_multi
\* returns them (no threshold is looked at here).
CcaReturn ==
    /\ apc = "loop"
    /\ Len(scores) = args.n_targets
    /\ apc' = "done"
    /\ ret' = detect_ssvep_multi(1, args.n_targets, scores, NoThreshold)
    /\ UNCHANGED <<args, scores, phase, rest_max_scores>>
    /\ UNCHANGED connectVars
    /\ UNCHANGED writerVars
    /\ UNCHANGED readerVars
    /\ UNCHANGED mainVars
    /\ UNCHANGED sessionVars

CcaNext ==
    \/ CcaEnter
    \/ CcaTarget
    \/ CcaReturn

CcaSpec == CcaInit /\ [][CcaNext]_vars

----------------------------------------------------------------------------
\* bandpass_filter(data, low_hz, high_hz, fs, order).  Normalized cutoffs are
\* kept times 100 * fs, which is positive, so that they stay whole: low is
\* max(0.01, low_hz / nyq) * 100 * fs, with nyq = 0.5 * fs.

Max(a, b) == IF a >= b THEN a ELSE b

\* low = low_hz / nyq; high = high_hz / nyq: the clamps left out.
BandpassNoClamp(low_hz, high_hz, fs) ==
    LET low == 200 * low_hz
        high == 200 * high_hz
    IN  IF low >= high
        THEN [filtered |-> FALSE, low |-> low, high |-> high]
        ELSE [filtered |-> TRUE, low |-> low, high |-> high]

\* filtered is FALSE when data is returned as it is, TRUE when butter and
\* filtfilt are called with the cutoffs [low, high].
bandpass_filter(low_hz, high_hz, fs) ==
    LET low == Max(LowClamp * fs, 200 * low_hz)
        high == Min(HighClamp * fs, 200 * high_hz)
    IN  IF low >= high
        THEN [filtered |-> FALSE, low |-> low, high |-> high]
        ELSE [filtered |-> TRUE, low |-> low, high |-> high]

BandpassInit ==
    /\ StreamInit
    /\ SessionIdle
    /\ apc = "ready"
    /\ args \in {[low_hz |-> lo, high_hz |-> hi, fs |-> fs] :
                     lo \in (0 - 1)..MaxHz, hi \in (0 - 1)..MaxHz, fs \in 1..MaxFs}
    /\ ret = <<>>
    /\ scores = <<>>
    /\ phase = 0
    /\ rest_max_scores = <<>>

\* filtered = bandpass_filter(data.T, low_hz, high_hz, fs, order)
BandpassCall ==
    /\ apc = "ready"
    /\ apc' = "done"
    /\ ret' = bandpass_filter(args.low_hz, args.high_hz, args.fs)
    /\ UNCHANGED <<args, scores, phase, rest_max_scores>>
    /\ UNCHANGED connectVars
    /\ UNCHANGED writerVars
    /\ UNCHANGED readerVars
    /\ UNCHANGED mainVars
    /\ UNCHANGED sessionVars

BandpassNext ==
    \/ BandpassCall

BandpassSpec == BandpassInit /\ [][BandpassNext]_vars

----------------------------------------------------------------------------
\* The detector parameters main() and _run_calibration() read from the
\* configuration.  An entry of a configuration section is [set |-> FALSE] with
\* a val that is not looked at, for a key that is missing, or
\* [set |-> TRUE, val |-> v].  Tolerances are in half Hz, cca_reg in 1e-4.

\* cfg.get(key, default)
CfgGet(entry, default) ==
    IF entry.set THEN entry.val ELSE default

\* A key that is missing, or present with one of vals.
Entries(vals) ==
    {[set |-> FALSE, val |-> v] : v \in {CHOOSE w \in vals : TRUE}}
        \cup {[set |-> TRUE, val |-> v] : v \in vals}

\* The stimulus and preprocessing sections of the configuration.
Configs ==
    [detection_method : Entries({"fft", "cca"}),
     frequency_tolerance_hz : Entries({2}),
     use_second_harmonic : Entries(BOOLEAN),
     cca_n_harmonics : Entries({3}),
     cca_components : Entries({2}),
     cca_reg : Entries({10}),
     bandpass_low_hz : Entries({4}),
     bandpass_high_hz : Entries({40}),
     filter_order : Entries({2}),
     common_average_reference : Entries(BOOLEAN)]

\* The keyword arguments of detect_ssvep_multi in the main loop.
LiveParams(cfg) ==
    [method |-> CfgGet(cfg.detection_method, "fft"),
     freq_tol_hz |-> CfgGet(cfg.frequency_tolerance_hz, 1),
     use_second_harmonic |-> CfgGet(cfg.use_second_harmonic, TRUE),
     cca_n_harmonics |-> CfgGet(cfg.cca_n_harmonics, 2),
     cca_components |-> CfgGet(cfg.cca_components, 1),
     cca_reg |-> CfgGet(cfg.cca_reg, 1),
     bandpass_low |-> CfgGet(cfg.bandpass_low_hz, 5),
     bandpass_high |-> CfgGet(cfg.bandpass_high_hz, 30),
     filter_order |-> CfgGet(cfg.filter_order, 4),
     car |-> CfgGet(cfg.common_average_reference, TRUE)]

\* The keyword arguments of detect_ssvep_multi in _run_calibration.
CalibrationParams(cfg) ==
    [method |-> CfgGet(cfg.detection_method, "cca"),
     freq_tol_hz |-> CfgGet(cfg.frequency_tolerance_hz, 1),
     use_second_harmonic |-> CfgGet(cfg.use_second_harmonic, TRUE),
     cca_n_harmonics |-> CfgGet(cfg.cca_n_harmonics, 2),
     cca_components |-> CfgGet(cfg.cca_components, 1),
     cca_reg |-> CfgGet(cfg.cca_reg, 1),
     bandpass_low |-> CfgGet(cfg.bandpass_low_hz, 5),
     bandpass_high |-> CfgGet(cfg.bandpass_high_hz, 30),
     filter_order |-> CfgGet(cfg.filter_order, 4),
     car |-> CfgGet(cfg.common_average_reference, TRUE)]

ConfigInit ==
    /\ StreamInit
    /\ SessionIdle
    /\ apc = "ready"
    /\ args \in Configs
    /\ ret = [live |-> <<>>, calibration |-> <<>>]
    /\ scores = <<>>
    /\ phase = 0
    /\ rest_max_scores = <<>>

\* main() reads the configuration (app.py 399-411).
ReadLiveParams ==
    /\ apc = "ready"
    /\ apc' = "calibrate"
    /\ ret' = [ret EXCEPT !.live = LiveParams(args)]
    /\ UNCHANGED <<args, scores, phase, rest_max_scores>>
    /\ UNCHANGED connectVars
    /\ UNCHANGED writerVars
    /\ UNCHANGED readerVars
    /\ UNCHANGED mainVars
    /\ UNCHANGED sessionVars

\* _run_calibration, called with the same sections, reads it again
\* (app.py 203-213).
ReadCalibrationParams ==
    /\ apc = "calibrate"
    /\ apc' = "done"
    /\ ret' = [ret EXCEPT !.calibration = CalibrationParams(args)]
    /\ UNCHANGED <<args, scores, phase, rest_max_scores>>
    /\ UNCHANGED connectVars
    /\ UNCHANGED writerVars
    /\ UNCHANGED readerVars
    /\ UNCHANGED mainVars
    /\ UNCHANGED sessionVars

ConfigNext ==
    \/ ReadLiveParams
    \/ ReadCalibrationParams

ConfigSpec == ConfigInit /\ [][ConfigNext]_vars

----------------------------------------------------------------------------
\* LSLMarkerSender of src/session/src/lsl_markers.py.  sender holds
\*   enabled                self.enabled
\*   use_brainaccess_board  self.use_brainaccess_board
\*   open                   the outlet of the backend in use (self.ba_stimulation
\*                          or self.outlet) is not None
\*   marker_counter         self.marker_counter
\*   delivered              history: calls of annotate() or push_sample() that
\*                          returned
\* and ret the value of the last send_marker.

\* The sender after __init__: disabled (by the argument, for want of a
\* backend, or because _initialize_stream raised), or enabled with the outlet
\* made, or enabled with a stimulation_connect() that returned None.
SenderInit ==
    /\ StreamInit
    /\ handler = <<>>
    /\ apc = "idle"
    /\ args = <<>>
    /\ ret = 0
    /\ scores = <<>>
    /\ phase = 0
    /\ rest_max_scores = <<>>
    /\ sender \in {[enabled |-> e, use_brainaccess_board |-> b, open |-> o,
                     marker_counter |-> 0, delivered |-> 0] :
                        e \in BOOLEAN, b \in BOOLEAN, o \in BOOLEAN}
    /\ sender.open => sender.enabled
    /\ (sender.enabled /\ ~sender.open) => sender.use_brainaccess_board

\* send_marker(marker, timestamp, metadata): 0 for a sender that is disabled
\* or has no outlet; else the counter is incremented, and then the backend
\* call either returns (the counter is returned) or raises (0 is returned from
\* the except clause).
SendMarker ==
    /\ sender # <<>>
    /\ sender.marker_counter < MaxMarkers
    /\ IF ~sender.enabled \/ ~sender.open
       THEN /\ ret' = 0
            /\ sender' = sender
       ELSE \/ /\ sender' = [sender EXCEPT
                                 !.marker_counter = sender.marker_counter + 1,
                                 !.delivered = sender.delivered + 1]
               /\ ret' = sender.marker_counter + 1
            \/ /\ sender' = [sender EXCEPT
                                 !.marker_counter = sender.marker_counter + 1]
               /\ ret' = 0
    /\ UNCHANGED <<apc, args, scores, phase, rest_max_scores, handler>>
    /\ UNCHANGED connectVars
    /\ UNCHANGED writerVars
    /\ UNCHANGED readerVars
    /\ UNCHANGED mainVars

\* close(): the outlet of the backend in use is set to None.
SenderClose ==
    /\ sender # <<>>
    /\ sender.open
    /\ sender' = [sender EXCEPT !.open = FALSE]
    /\ UNCHANGED <<apc, args, ret, scores, phase, rest_max_scores, handler>>
    /\ UNCHANGED connectVars
    /\ UNCHANGED writerVars
    /\ UNCHANGED readerVars
    /\ UNCHANGED mainVars

SenderNext ==
    \/ SendMarker
    \/ SenderClose

SenderSpec == SenderInit /\ [][SenderNext]_vars

----------------------------------------------------------------------------
\* BrainAccessHandler of src/session/src/brainaccess_handler.py, connected:
\* the chunk callback on the thread of the device, start_recording and
\* stop_recording on the main thread.  handler holds
\*   eeg_data      self.eeg_data; an entry is the number of the sample the
\*                 row was built from
\*   timestamps    self.timestamps; an entry is the number of the sample the
\*                 timestamp was computed for
\*   is_recording  self.is_recording
\*   cb            position of _on_chunk: idle, data, ts
\*   left          turns of "for i in range(chunk_size)" still to run
\*   sample        number of the sample in hand
\*   rec           position of the main thread: idle, clear_ts (in
\*                 start_recording), save_ts (in _save_to_csv)
\*   data_array    _save_to_csv: list(self.eeg_data)

HandlerInit ==
    /\ StreamInit
    /\ AnalysisIdle
    /\ sender = <<>>
    /\ handler = [eeg_data |-> <<>>, timestamps |-> <<>>,
                  is_recording |-> FALSE, cb |-> "idle", left |-> 0,
                  sample |-> 0, rec |-> "idle", data_array |-> <<>>]

\* The device calls _on_chunk with a chunk of chunk_size samples.
HandlerChunkBegin ==
    /\ handler # <<>>
    /\ handler.cb = "idle"
    /\ \E size \in 1..MaxChunk :
          /\ handler.sample + size <= MaxHandlerSamples
          /\ handler' = [handler EXCEPT !.cb = "data", !.left = size,
                                        !.sample = handler.sample + 1]
    /\ UNCHANGED <<core, sender>>
    /\ UNCHANGED <<chunk_index_map, is_connected, cpc, bk>>
    /\ UNCHANGED writerVars
    /\ UNCHANGED readerVars
    /\ UNCHANGED mainVars
    /\ UNCHANGED analysisVars

\* self.eeg_data.append(sample_values)
HandlerAppendData ==
    /\ handler # <<>>
    /\ handler.cb = "data"
    /\ handler' = [handler EXCEPT
                      !.eeg_data = DequeAppend(handler.eeg_data, handler.sample,
                                               HandlerMaxLen),
                      !.cb = "ts"]
    /\ UNCHANGED <<core, sender>>
    /\ UNCHANGED <<chunk_index_map, is_connected, cpc, bk>>
    /\ UNCHANGED writerVars
    /\ UNCHANGED readerVars
    /\ UNCHANGED mainVars
    /\ UNCHANGED analysisVars

\* self.timestamps.append(timestamp), and the next turn of the loop or the
\* return.
HandlerAppendTs ==
    /\ handler # <<>>
    /\ handler.cb = "ts"
    /\ handler' = [handler EXCEPT
                      !.timestamps = DequeAppend(handler.timestamps,
                                                 handler.sample, HandlerMaxLen),
                      !.left = handler.left - 1,
                      !.sample = IF handler.left > 1 THEN handler.sample + 1
                                 ELSE handler.sample,
                      !.cb = IF handler.left > 1 THEN "data" ELSE "idle"]
    /\ UNCHANGED <<core, sender>>
    /\ UNCHANGED <<chunk_index_map, is_connected, cpc, bk>>
    /\ UNCHANGED writerVars
    /\ UNCHANGED readerVars
    /\ UNCHANGED mainVars
    /\ UNCHANGED analysisVars

\* start_recording() of a connected handler that is not recording, up to
\* self.eeg_data.clear().
StartRecordingClearData ==
    /\ handler # <<>>
    /\ handler.rec = "idle"
    /\ ~handler.is_recording
    /\ handler' = [handler EXCEPT !.eeg_data = <<>>, !.rec = "clear_ts"]
    /\ UNCHANGED <<core, sender>>
    /\ UNCHANGED <<chunk_index_map, is_connected, cpc, bk>>
    /\ UNCHANGED writerVars
    /\ UNCHANGED readerVars
    /\ UNCHANGED mainVars
    /\ UNCHANGED analysisVars

\* self.timestamps.clear() and the rest of start_recording():
\* self.is_recording = True.
StartRecordingClearTs ==
    /\ handler # <<>>
    /\ handler.rec = "clear_ts"
    /\ handler' = [handler EXCEPT !.timestamps = <<>>, !.is_recording = TRUE,
                                  !.rec = "idle"]
    /\ UNCHANGED <<core, sender>>
    /\ UNCHANGED <<chunk_index_map, is_connected, cpc, bk>>
    /\ UNCHANGED writerVars
    /\ UNCHANGED readerVars
    /\ UNCHANGED mainVars
    /\ UNCHANGED analysisVars

\* stop_recording() of a recording handler: self.is_recording = False, and
\* for a buffer that is not empty _save_to_csv up to
\* data_array = np.array(list(self.eeg_data)).
StopRecordingCopyData ==
    /\ handler # <<>>
    /\ handler.rec = "idle"
    /\ handler.is_recording
    /\ handler' = [handler EXCEPT
                      !.is_recording = FALSE,
                      !.data_array = handler.eeg_data,
                      !.rec = IF Len(handler.eeg_data) > 0 THEN "save_ts"
                              ELSE "idle"]
    /\ UNCHANGED <<core, sender>>
    /\ UNCHANGED <<chunk_index_map, is_connected, cpc, bk>>
    /\ UNCHANGED writerVars
    /\ UNCHANGED readerVars
    /\ UNCHANGED mainVars
    /\ UNCHANGED analysisVars

\* timestamps_array = np.array(list(self.timestamps)) and the rest of
\* _save_to_csv, which writes the file or, for arrays of different lengths,
\* catches the ValueError of df.insert and returns False.
StopRecordingCopyTs ==
    /\ handler # <<>>
    /\ handler.rec = "save_ts"
    /\ handler' = [handler EXCEPT !.data_array = <<>>, !.rec = "idle"]
    /\ UNCHANGED <<core, sender>>
    /\ UNCHANGED <<chunk_index_map, is_connected, cpc, bk>>
    /\ UNCHANGED writerVars
    /\ UNCHANGED readerVars
    /\ UNCHANGED mainVars
    /\ UNCHANGED analysisVars

HandlerNext ==
    \/ HandlerChunkBegin
    \/ HandlerAppendData
    \/ HandlerAppendTs
    \/ StartRecordingClearData
    \/ StartRecordingClearTs
    \/ StopRecordingCopyData
    \/ StopRecordingCopyTs

HandlerSpec == HandlerInit /\ [][HandlerNext]_vars

----------------------------------------------------------------------------
\* TrialGenerator.generate_trials of src/session/src/trial_generator.py: the
\* assignment of blocks.  n_trials is len(s1_trials), which the shuffle leaves
\* as _generate_s1_sequence made it: probe_reps trials for each probe object
\* and irrelevant_reps for each irrelevant object, at least one of each after
\* _validate_inputs, so at least MinTrials trials.
MinTrials == 2

\* The value of trial['block'] for every trial in order, or the
\* ZeroDivisionError of "i // trials_per_block" for the first trial when
\* trials_per_block is 0.
AssignBlocks(n_trials, num_blocks) ==
    LET trials_per_block == n_trials \div num_blocks
    IN  IF n_trials > 0 /\ trials_per_block = 0
        THEN [raised |-> TRUE, block |-> <<>>]
        ELSE [raised |-> FALSE,
              block |-> [t \in 1..n_trials |->
                           LET b == ((t - 1) \div trials_per_block) + 1
                           IN  IF b > num_blocks THEN num_blocks ELSE b]]

TrialInit ==
    /\ StreamInit
    /\ SessionIdle
    /\ apc = "ready"
    /\ args \in {[n_trials |-> nt, num_blocks |-> nb] :
                     nt \in MinTrials..MaxTrials, nb \in 1..MaxBlocks}
    /\ ret = <<>>
    /\ scores = <<>>
    /\ phase = 0
    /\ rest_max_scores = <<>>

\* trials = generator.generate_trials()
GenerateTrials ==
    /\ apc = "ready"
    /\ apc' = "done"
    /\ ret' = AssignBlocks(args.n_trials, args.num_blocks)
    /\ UNCHANGED <<args, scores, phase, rest_max_scores>>
    /\ UNCHANGED connectVars
    /\ UNCHANGED writerVars
    /\ UNCHANGED readerVars
    /\ UNCHANGED mainVars
    /\ UNCHANGED sessionVars

TrialNext ==
    \/ GenerateTrials

TrialSpec == TrialInit /\ [][TrialNext]_vars

----------------------------------------------------------------------------
\* main() of app.py, after connect() returned True.

\* n_classes = 4 if rest_enabled else 3
n_classes ==
    IF rest_enabled THEN NumTargets + 1 ELSE NumTargets

\* The indices detect_ssvep_multi returns for the windows of the main loop
\* (not empty, NumTargets targets) when it is passed the threshold th.
OutputsFor(th) ==
    {detect_ssvep_multi(1, NumTargets, sc, th).idx :
        sc \in ScoreVectors(NumTargets)}

\* rest_threshold=None
UngatedOutputs == OutputsFor(NoThreshold)

\* rest_threshold a number
GatedOutputs == UNION {OutputsFor(th) : th \in Thresholds}

\* The values of the argument rest_threshold in the main loop:
\* rest_threshold if rest_enabled else None.
PassedThresholds ==
    IF rest_enabled /\ rest_threshold_set THEN Thresholds ELSE {NoThreshold}

\* The indices detect_ssvep_multi can return in the main loop.  It is passed
\* rest_threshold if rest_enabled else None, and rest_threshold is None
\* unless the calibration ran (calibration enabled and rest_enabled) and
\* returned a threshold.
DetectorOutputs ==
    IF rest_enabled /\ rest_threshold_set THEN GatedOutputs
    ELSE UngatedOutputs

\* data is not None and data.shape[0] >= fs * 0.5
EnoughDataAlways(ok, rows) ==
    ok

EnoughData(ok, rows) ==
    ok /\ 2 * rows >= SamplingRate

\* The configuration is read, the calibration has or has not left a rest
\* threshold (only if rest_enabled), history = [].  app.py sets smooth_count
\* to 2; get_smoothed_selection takes any min_agreements from 1 to the length
\* of the history, so the model draws it.
MainStart ==
    /\ cpc = "done"
    /\ mpc = "boot"
    /\ mpc' = "loop"
    /\ rest_enabled' \in BOOLEAN
    /\ rest_threshold_set' \in BOOLEAN
    /\ rest_threshold_set' => rest_enabled'
    /\ smooth_count' \in 1..HistoryCap
    /\ history' = <<>>
    /\ detected_idx' = Undecided
    /\ UNCHANGED <<cycles, m_ok, m_rows, m_size>>
    /\ UNCHANGED connectVars
    /\ UNCHANGED writerVars
    /\ UNCHANGED readerVars
    /\ UNCHANGED analysisVars
    /\ UNCHANGED sessionVars

\* data, _ = stream.get_recent(window_sec)
CycleRead ==
    /\ mpc = "loop"
    /\ cycles < MaxCycles
    /\ mpc' = "got"
    /\ m_ok' = GetRecent(WindowHalfSeconds).ok
    /\ m_rows' = Len(GetRecent(WindowHalfSeconds).win)
    /\ m_size' = Len(data)
    /\ UNCHANGED <<rest_enabled, rest_threshold_set, smooth_count, history,
                   detected_idx, cycles>>
    /\ UNCHANGED connectVars
    /\ UNCHANGED writerVars
    /\ UNCHANGED readerVars
    /\ UNCHANGED analysisVars
    /\ UNCHANGED sessionVars

\* data, _ = stream.get_recent(window_sec), the window given as an input: None
\* or up to max_samples rows, and never fewer rows than the turn before got,
\* since the deque never shrinks and window_sec is fixed.
WindowGiven ==
    /\ mpc = "loop"
    /\ cycles < MaxCycles
    /\ mpc' = "got"
    /\ \E rows \in m_rows..max_samples :
          /\ m_rows' = rows
          /\ m_ok' = (rows > 0)
          /\ m_size' = rows
    /\ UNCHANGED <<rest_enabled, rest_threshold_set, smooth_count, history,
                   detected_idx, cycles>>
    /\ UNCHANGED connectVars
    /\ UNCHANGED writerVars
    /\ UNCHANGED readerVars
    /\ UNCHANGED analysisVars
    /\ UNCHANGED sessionVars

\* The turn of the main loop without history.pop(0).
CycleClassifyNoPop ==
    /\ mpc = "got"
    /\ mpc' = "loop"
    /\ IF EnoughData(m_ok, m_rows)
       THEN \E idx \in DetectorOutputs :
               LET hist_val == IF idx = RestIdx THEN RestLabel ELSE idx
                   appended == Append(history, hist_val)
                   trimmed == appended
               IN  /\ history' = trimmed
                   /\ detected_idx' =
                          get_smoothed_selection(trimmed, smooth_count, n_classes)
                   /\ cycles' = cycles + 1
       ELSE /\ detected_idx' = Undecided
            /\ UNCHANGED <<history, cycles>>
    /\ UNCHANGED <<rest_enabled, rest_threshold_set, smooth_count,
                   m_ok, m_rows, m_size>>
    /\ UNCHANGED connectVars
    /\ UNCHANGED writerVars
    /\ UNCHANGED readerVars
    /\ UNCHANGED analysisVars
    /\ UNCHANGED sessionVars

\* The rest of the turn of the main loop: detected_idx = None, and for a
\* window of half a second or more the detection, the append to the history
\* trimmed to its cap, and the smoothed selection.
CycleClassify ==
    /\ mpc = "got"
    /\ mpc' = "loop"
    /\ IF EnoughData(m_ok, m_rows)
       THEN \E idx \in DetectorOutputs :
               LET hist_val == IF idx = RestIdx THEN RestLabel ELSE idx
                   appended == Append(history, hist_val)
                   trimmed == IF Len(appended) > HistoryCap
                              THEN Tail(appended) ELSE appended
               IN  /\ history' = trimmed
                   /\ detected_idx' =
                          get_smoothed_selection(trimmed, smooth_count, n_classes)
                   /\ cycles' = cycles + 1
       ELSE /\ detected_idx' = Undecided
            /\ UNCHANGED <<history, cycles>>
    /\ UNCHANGED <<rest_enabled, rest_threshold_set, smooth_count,
                   m_ok, m_rows, m_size>>
    /\ UNCHANGED connectVars
    /\ UNCHANGED writerVars
    /\ UNCHANGED readerVars
    /\ UNCHANGED analysisVars
    /\ UNCHANGED sessionVars

----------------------------------------------------------------------------
\* _run_calibration(screen, stream, freqs_hz, window_sec, rest_seconds,
\*                  seconds_per_target, rest_margin_std, ...)

\* The names of the phases, in the order of the list phases.
phases == <<"LEFT", "CENTER", "RIGHT", "REST (look at gray square)">>

\* phase_name.startswith("REST")
StartsWithRest(phase_name) ==
    phase_name = "REST (look at gray square)"

\* The value returned for None, and a threshold with the mean and the standard
\* deviation it was computed from.
NoCalibration == [rest_threshold |-> NoThreshold, rest_mean |-> 0, rest_std |-> 0]

\* The floor applied to every standard deviation below it.
FlooredStdMax(rest_std) ==
    IF rest_std <= RestStdFloor THEN RestStdFloor ELSE rest_std

\* if rest_std <= 0: rest_std = 1e-6
FlooredStd(rest_std) ==
    IF rest_std <= 0 THEN RestStdFloor ELSE rest_std

\* rest_threshold = rest_mean + rest_margin_std * rest_std
RestThreshold(rest_mean, rest_std, rest_margin_std) ==
    rest_mean + rest_margin_std * FlooredStd(rest_std)

\* min(list), list not empty.
MinOf(list) ==
    CHOOSE v \in Range(list) : \A w \in Range(list) : v <= w

\* The pairs np.mean and np.std can return for a list that is not empty: the
\* mean lies between the least and the largest value, and the deviation is
\* above 0 when two values differ.  For equal values np.std returns 0 or the
\* residue of the rounding of the mean.
MeanStdOf(list) ==
    {ms \in (0..MaxScore) \X (0..MaxStd) :
        /\ MinOf(list) <= ms[1]
        /\ ms[1] <= MaxOf(list)
        /\ (\E j, k \in 1..Len(list) : list[j] # list[k]) => ms[2] > 0}

CalibInit ==
    /\ StreamInit
    /\ SessionIdle
    /\ apc = "ready"
    /\ args \in {[rest_margin_std |-> k] : k \in 0..MaxMargin}
    /\ ret = NoCalibration
    /\ scores = <<>>
    /\ phase = 0
    /\ rest_max_scores = <<>>

\* rest_max_scores = []; the loop over the phases begins with the first.
CalibrationStart ==
    /\ apc = "ready"
    /\ apc' = "phase"
    /\ phase' = 1
    /\ rest_max_scores' = <<>>
    /\ scores' = <<>>
    /\ UNCHANGED <<args, ret>>
    /\ UNCHANGED connectVars
    /\ UNCHANGED writerVars
    /\ UNCHANGED readerVars
    /\ UNCHANGED mainVars
    /\ UNCHANGED sessionVars

\* One turn of the while loop of a phase with no QUIT and no ESC: a window is
\* read, and if it has half a second of rows the detector runs on it with
\* rest_threshold=None; scores is <<>> after a turn that did not run it.
CalibrationTurnRetainAll ==
    /\ apc = "phase"
    /\ \E rows \in 0..max_samples :
          IF EnoughData(rows > 0, rows)
          THEN \E sc \in ScoreVectors(NumTargets) :
                  LET out == detect_ssvep_multi(rows, NumTargets, sc, NoThreshold)
                  IN  /\ scores' = out.scores
                      /\ Len(rest_max_scores) < MaxRestWindows
                      /\ rest_max_scores' =
                             Append(rest_max_scores, MaxOf(out.scores))
          ELSE /\ scores' = <<>>
               /\ UNCHANGED rest_max_scores
    /\ UNCHANGED <<apc, args, ret, phase>>
    /\ UNCHANGED connectVars
    /\ UNCHANGED writerVars
    /\ UNCHANGED readerVars
    /\ UNCHANGED mainVars
    /\ UNCHANGED sessionVars

CalibrationTurn ==
    /\ apc = "phase"
    /\ \E rows \in 0..max_samples :
          IF EnoughData(rows > 0, rows)
          THEN \E sc \in ScoreVectors(NumTargets) :
                  LET out == detect_ssvep_multi(rows, NumTargets, sc, NoThreshold)
                  IN  /\ scores' = out.scores
                      /\ IF StartsWithRest(phases[phase]) /\ Len(out.scores) > 0
                         THEN /\ Len(rest_max_scores) < MaxRestWindows
                              /\ rest_max_scores' =
                                     Append(rest_max_scores, MaxOf(out.scores))
                         ELSE UNCHANGED rest_max_scores
          ELSE /\ scores' = <<>>
               /\ UNCHANGED rest_max_scores
    /\ UNCHANGED <<apc, args, ret, phase>>
    /\ UNCHANGED connectVars
    /\ UNCHANGED writerVars
    /\ UNCHANGED readerVars
    /\ UNCHANGED mainVars
    /\ UNCHANGED sessionVars

\* QUIT or ESC in a turn of the loop: return None
CalibrationEscape ==
    /\ apc = "phase"
    /\ apc' = "done"
    /\ ret' = NoCalibration
    /\ UNCHANGED <<args, scores, phase, rest_max_scores>>
    /\ UNCHANGED connectVars
    /\ UNCHANGED writerVars
    /\ UNCHANGED readerVars
    /\ UNCHANGED mainVars
    /\ UNCHANGED sessionVars

\* The duration of a phase is over and the for loop takes the next phase.
CalibrationNextPhase ==
    /\ apc = "phase"
    /\ phase < Len(phases)
    /\ phase' = phase + 1
    /\ UNCHANGED <<apc, args, ret, scores, rest_max_scores>>
    /\ UNCHANGED connectVars
    /\ UNCHANGED writerVars
    /\ UNCHANGED readerVars
    /\ UNCHANGED mainVars
    /\ UNCHANGED sessionVars

\* The duration of the last phase is over: None without rest scores, else
\* the threshold from their mean and standard deviation.
CalibrationReturn ==
    /\ apc = "phase"
    /\ phase = Len(phases)
    /\ apc' = "done"
    /\ IF rest_max_scores = <<>>
       THEN ret' = NoCalibration
       ELSE \E ms \in MeanStdOf(rest_max_scores) :
               ret' = [rest_threshold |->
                           RestThreshold(ms[1], ms[2], args.rest_margin_std),
                       rest_mean |-> ms[1],
                       rest_std |-> ms[2]]
    /\ UNCHANGED <<args, scores, phase, rest_max_scores>>
    /\ UNCHANGED connectVars
    /\ UNCHANGED writerVars
    /\ UNCHANGED readerVars
    /\ UNCHANGED mainVars
    /\ UNCHANGED sessionVars

CalibNext ==
    \/ CalibrationStart
    \/ CalibrationTurn
    \/ CalibrationEscape
    \/ CalibrationNextPhase
    \/ CalibrationReturn

CalibSpec == CalibInit /\ [][CalibNext]_vars

\* main() with a threshold of 0.0 taken when the calibration returns None.
MainAfterCalibrationZero ==
    /\ apc = "done"
    /\ mpc = "boot"
    /\ mpc' = "loop"
    /\ rest_enabled' = TRUE
    /\ rest_threshold_set' = TRUE
    /\ smooth_count' = 2
    /\ history' = <<>>
    /\ detected_idx' = Undecided
    /\ apc' = "idle"
    /\ args' = <<>>
    /\ ret' = <<>>
    /\ scores' = <<>>
    /\ phase' = 0
    /\ rest_max_scores' = <<>>
    /\ UNCHANGED <<cycles, m_ok, m_rows, m_size>>
    /\ UNCHANGED connectVars
    /\ UNCHANGED writerVars
    /\ UNCHANGED readerVars
    /\ UNCHANGED sessionVars

\* main() from the return of the calibration to the loop, for a configuration
\* with calibration.enabled and rest_enabled: rest_threshold =
\* _run_calibration(...), history = [], smooth_count = 2.  The locals of
\* _run_calibration are gone.
MainAfterCalibration ==
    /\ apc = "done"
    /\ mpc = "boot"
    /\ mpc' = "loop"
    /\ rest_enabled' = TRUE
    /\ rest_threshold_set' = (ret.rest_threshold # NoThreshold)
    /\ smooth_count' = 2
    /\ history' = <<>>
    /\ detected_idx' = Undecided
    /\ apc' = "idle"
    /\ args' = <<>>
    /\ ret' = <<>>
    /\ scores' = <<>>
    /\ phase' = 0
    /\ rest_max_scores' = <<>>
    /\ UNCHANGED <<cycles, m_ok, m_rows, m_size>>
    /\ UNCHANGED connectVars
    /\ UNCHANGED writerVars
    /\ UNCHANGED readerVars
    /\ UNCHANGED sessionVars

\* The calibration and the main loop that follows it, on windows given as
\* inputs.
CalibLoopNext ==
    \/ CalibNext
    \/ MainAfterCalibration
    \/ WindowGiven
    \/ CycleClassify

CalibLoopSpec == CalibInit /\ [][CalibLoopNext]_vars

----------------------------------------------------------------------------
Writer ==
    \/ OnChunkBegin
    \/ OnChunkRow
    \/ OnChunkAppendData
    \/ OnChunkAppendTs

Reader ==
    \/ GetRecentCheck
    \/ GetRecentLen
    \/ GetRecentCopy
    \/ GetRecentDone

Connect ==
    \/ ConnectStart
    \/ ConnectFail
    \/ BuildStep
    \/ ConnectReturn

Next ==
    \/ Connect
    \/ Writer
    \/ Reader

Spec == Init /\ [][Next]_vars

\* The stream with its teardown: connect, the callbacks (each as one step),
\* get_recent step by step, and disconnect.
TeardownNext ==
    \/ Connect
    \/ OnChunk
    \/ Reader
    \/ Disconnect

TeardownSpec == Init /\ [][TeardownNext]_vars

\* Any sequence of connect() and disconnect() calls on one EEGStream, with
\* the callbacks of the device in between.
LifecycleNext ==
    \/ Connect
    \/ OnChunk
    \/ Disconnect
    \/ Reconnect
    \/ ReconnectFail

LifecycleSpec == Init /\ [][LifecycleNext]_vars

\* The application: connect, the callbacks of the device, and the main loop.
MainLoop ==
    \/ MainStart
    \/ CycleRead
    \/ CycleClassify

AppNext ==
    \/ Connect
    \/ OnChunk
    \/ MainLoop

AppSpec == Init /\ [][AppNext]_vars

\* The main loop on windows given as inputs: the history and the smoother.
SmootherNext ==
    \/ Connect
    \/ MainStart
    \/ WindowGiven
    \/ CycleClassify

SmootherSpec == Init /\ [][SmootherNext]_vars

\* The steps of a callback in hand.
WriterStep ==
    \/ OnChunkRow
    \/ OnChunkAppendData
    \/ OnChunkAppendTs

\* The steps of a get_recent in hand.
ReaderStep ==
    \/ GetRecentLen
    \/ GetRecentCopy

----------------------------------------------------------------------------
\* Claims about the sample buffer.

\* The rows of log[from..to], scaled as get_recent scales them.
ScaledRun(from, to) ==
    [j \in 1..(to - from + 1) |->
        [seq |-> from + j - 1, row |-> Scaled(log[from + j - 1].row)]]

\* C1: the buffer never holds more than capacity = sampling_rate * buffer_seconds
\* samples, and it always holds the most recent min(capacity, appended) samples
\* appended, in the order they were appended (the oldest is evicted first).
C1_FifoEviction ==
    /\ Len(data) <= max_samples
    /\ Len(data) = Min(Len(log), max_samples)
    /\ \A j \in 1..Len(data) : data[j] = log[Len(log) - Len(data) + j]

\* More samples than the capacity have been appended.
C1_Witness ==
    /\ Len(log) > max_samples
    /\ Len(data) = max_samples

\* C2: under every interleaving of _on_chunk with get_recent, the window
\* returned is a run of whole samples, consecutive in the append order, each as
\* it was appended (one value per channel), ending at the sample that was the
\* newest when the deque was copied, an instant between the call and the return.
C2_SnapshotConsistent ==
    (rpc = "ret" /\ result.ok) =>
        LET w == result.win
        IN  /\ Len(w) >= 1
            /\ newest_at_call <= newest_at_copy
            /\ newest_at_copy <= Len(log)
            /\ w[Len(w)].seq = newest_at_copy
            /\ \A j \in 1..Len(w) :
                   /\ w[j].seq = w[1].seq + j - 1
                   /\ w[j].seq \in 1..Len(log)
                   /\ Len(w[j].row) = Len(channels)
                   /\ w[j].row = Scaled(log[w[j].seq].row)

\* A window returned while a callback is in the middle of a chunk, after a
\* sample arrived between the call and the copy.
C2_Witness ==
    /\ rpc = "ret"
    /\ result.ok
    /\ wpc = "row"
    /\ Len(row) = 1
    /\ newest_at_copy > newest_at_call
    /\ Len(result.win) >= 2

\* The sizes the buffer had between the call in hand and now.
SizesDuringCall ==
    {Min(m, max_samples) : m \in newest_at_call..Len(log)}

\* C3: get_recent(seconds) returns the min(int(seconds * rate), size) most
\* recently appended samples, oldest first (size being the size of the buffer
\* during the call, and the values multiplied by raw_to_uv_scale), and None when
\* that count is 0, as on an empty buffer; on a full buffer get_recent(capacity / rate)
\* returns all of it.
C3_RecentWindow ==
    (rpc = "ret") =>
        LET req == RequestedSamples(seconds2)
        IN  IF result.ok
            THEN /\ \E size \in SizesDuringCall :
                        Len(result.win) = Min(req, size)
                 /\ Len(result.win) >= 1
                 /\ result.win = ScaledRun(newest_at_copy - Len(result.win) + 1,
                                            newest_at_copy)
            ELSE /\ result = None
                 /\ \E size \in SizesDuringCall : Min(req, size) = 0

\* get_recent(capacity / rate) on a full buffer, with no append during the call,
\* has returned the whole buffer.
C3_Witness ==
    /\ rpc = "ret"
    /\ result.ok
    /\ seconds2 = 2 * BufferSeconds
    /\ newest_at_call = Len(log)
    /\ Len(data) = max_samples
    /\ Len(result.win) = max_samples
    /\ \A j \in 1..max_samples : result.win[j].row = Scaled(data[j].row)

\* Steps the callback in hand still has to take before it returns.
WriterRemaining ==
    IF wpc = "idle" THEN 0
    ELSE (chunk_size - i - 1) * (Len(channels) + 2)
         + (IF wpc = "row" THEN Len(channels) - Len(row) + 2
            ELSE IF wpc = "append_data" THEN 2 ELSE 1)

\* Steps the get_recent in hand still has to take before it returns.
ReaderRemaining ==
    IF rpc = "len" THEN 2 ELSE IF rpc = "copy" THEN 1 ELSE 0

\* C5: neither side waits on the other.  A callback in hand can take its next
\* step in every state, whatever get_recent is doing; each of its steps brings
\* it closer to its return and no step of another thread sets it back; when it
\* has returned, every sample of its chunk has been appended.  A get_recent in
\* hand can take its next step in every state, whether callbacks arrive, have
\* stopped or are running, and each of its steps brings it closer to its return.
C5_NeverWaits ==
    /\ [](wpc # "idle" => ENABLED WriterStep)
    /\ [](rpc \in {"len", "copy"} => ENABLED ReaderStep)
    /\ [](wpc = "idle" => Len(log) = sent)
    /\ [](WriterRemaining >= 0 /\ (WriterRemaining = 0 <=> wpc = "idle"))
    /\ [][WriterStep => WriterRemaining' < WriterRemaining]_vars
    /\ [][ReaderStep => ReaderRemaining' < ReaderRemaining]_vars
    /\ [][(Reader \/ Connect) => WriterRemaining' = WriterRemaining]_vars
    /\ [][(Writer \/ Connect) => ReaderRemaining' = ReaderRemaining]_vars

\* A callback about to append and a get_recent about to copy, at once.
C5_Witness ==
    /\ wpc = "append_data"
    /\ rpc = "copy"

\* The channel has no stream column: no table entry, or a failed lookup.
Degraded(ch) ==
    ch \notin DOMAIN chunk_index_map

----------------------------------------------------------------------------
\* Claims about the smoother.

\* The labels a history can hold: the target indices and the rest label.
Labels == (0..(NumTargets - 1)) \cup {RestLabel}

\* The last k entries of the history exist and all equal label.
TailAgrees(hist, k, label) ==
    /\ Len(hist) >= k
    /\ \A j \in (Len(hist) - k + 1)..Len(hist) : hist[j] = label

\* C7: for every history and every min_agreements from 1 to the cap of the
\* history, the smoother returns label L, a target index or the rest label, if
\* and only if the history holds min_agreements entries or more and the last
\* min_agreements of them all equal L; in every other case it returns undecided.
C7_SmootherIff ==
    (cycles > 0) =>
        /\ detected_idx \in Labels \cup {Undecided}
        /\ \A label \in Labels :
              detected_idx = label <=> TailAgrees(history, smooth_count, label)

\* The rest label is stable after three agreeing cycles on a history that has
\* dropped entries.
C7_Witness ==
    /\ smooth_count = 3
    /\ cycles > HistoryCap
    /\ detected_idx = RestLabel

\* C8: from an empty history, queried after each append: while fewer than
\* min_agreements labels are in, the answer is undecided; min_agreements - 1
\* equal labels followed by a different one give undecided; min_agreements
\* equal labels give that label at the query after the last of them, and so does
\* every later query while the run goes on.
C8_StableAfterRun ==
    (cycles > 0) =>
        /\ (cycles < smooth_count) => detected_idx = Undecided
        /\ (/\ cycles = smooth_count
            /\ cycles <= HistoryCap
            /\ smooth_count >= 2
            /\ \A j \in 1..(smooth_count - 1) : history[j] = history[1]
            /\ history[smooth_count] # history[1])
               => detected_idx = Undecided
        /\ (/\ cycles >= smooth_count
            /\ \A j \in 1..Len(history) : history[j] = history[1])
               => detected_idx = history[1]

\* min_agreements = 3: the third of three equal labels has made label 1 stable.
C8_Witness ==
    /\ smooth_count = 3
    /\ cycles = 3
    /\ history = <<1, 1, 1>>
    /\ detected_idx = 1

\* A run of min_agreements labels that differ from label and agree with each
\* other ends the history.
NewRunComplete(hist, k, label) ==
    \E other \in Labels : other # label /\ TailAgrees(hist, k, other)

\* C9 as stated: once the smoother reports L, it goes on reporting L until a run
\* of min_agreements labels that differ from L and agree with each other is in.
C9_Original ==
    [][(CycleClassify /\ cycles' = cycles + 1 /\ detected_idx # Undecided
            /\ ~NewRunComplete(history', smooth_count, detected_idx))
        => detected_idx' = detected_idx]_vars

\* C9 as amended: once the smoother reports L, a raw label equal to L keeps the
\* report, and the first raw label that differs from L ends it at once: the
\* report becomes undecided (or that label, when min_agreements is 1).  A label
\* other than L is reported only when the last min_agreements labels equal it.
C9_LeavesOnFirstDiffering ==
    [][(CycleClassify /\ cycles' = cycles + 1 /\ detected_idx # Undecided)
        => LET x == history'[Len(history')]
           IN  /\ (x = detected_idx) => detected_idx' = detected_idx
               /\ (x # detected_idx /\ smooth_count >= 2)
                     => detected_idx' = Undecided
               /\ (x # detected_idx /\ smooth_count = 1) => detected_idx' = x
               /\ (detected_idx' # Undecided)
                     => TailAgrees(history', smooth_count, detected_idx')]_vars

\* A stable label was followed by one differing label, and the report is
\* undecided.
C9_Witness ==
    /\ smooth_count = 2
    /\ history = <<0, 0, 1>>
    /\ detected_idx = Undecided

----------------------------------------------------------------------------
\* Claims about the detector.

\* C11 as stated: whenever detect_ssvep_multi is given a threshold, for every
\* window and every target list that is not empty, the index returned is the
\* rest index exactly when the largest score returned is below the
\* threshold, and the arg-max of the scores otherwise.
C11_Original ==
    (apc = "done" /\ args.rest_threshold # NoThreshold /\ args.n_targets > 0) =>
        /\ ret.idx = RestIdx <=> MaxOf(ret.scores) < args.rest_threshold
        /\ ret.idx # RestIdx => ret.idx = ArgMax(ret.scores)

\* C12: with no rest threshold (calibration off, skipped or failed, or the
\* rest class disabled) the main loop never appends the rest label to the
\* history and never reports it; whatever the scores, detect_ssvep_multi
\* then returns the arg-max index, a target index, and one score per target.
C12_NoRestWithoutThreshold ==
    (mpc # "boot" /\ ~(rest_enabled /\ rest_threshold_set)) =>
        /\ \A j \in 1..Len(history) : history[j] \in 0..(NumTargets - 1)
        /\ detected_idx # RestLabel
        /\ \A th \in PassedThresholds, size \in 0..1,
              sc \in ScoreVectors(NumTargets) :
              LET out == detect_ssvep_multi(size, NumTargets, sc, th)
              IN  /\ out.idx = ArgMax(out.scores)
                  /\ out.idx \in 0..(NumTargets - 1)
                  /\ Len(out.scores) = NumTargets
                  /\ size > 0 => out.scores = sc

\* Rest is enabled but no threshold exists, the history is full of target
\* labels and a target is the stable decision.
C12_Witness ==
    /\ mpc = "loop"
    /\ rest_enabled
    /\ ~rest_threshold_set
    /\ Len(history) = HistoryCap
    /\ smooth_count >= 2
    /\ detected_idx = NumTargets - 1

----------------------------------------------------------------------------
\* Claims about the calibration.

\* C13 as stated: a calibration that returns a threshold returns
\* rest_mean + rest_margin_std * max(rest_std, floor): the floor replaces
\* every standard deviation below it.
C13_Original ==
    (apc = "done" /\ ret.rest_threshold # NoThreshold) =>
        ret.rest_threshold =
            ret.rest_mean + args.rest_margin_std * FlooredStdMax(ret.rest_std)

\* C19: the phases are one per target, in target order, then one rest phase,
\* the last; the loop takes them in that order; the detector can run in a
\* turn of every phase; a turn adds to rest_max_scores only in the rest
\* phase and only when the detector ran, and then exactly the largest of the
\* scores of that turn; nothing else changes rest_max_scores.
C19_PhasesAndRetention ==
    /\ [](/\ Len(phases) = NumTargets + 1
          /\ \A p \in 1..NumTargets : ~StartsWithRest(phases[p])
          /\ StartsWithRest(phases[Len(phases)]))
    /\ [][phase' = phase \/ phase' = phase + 1]_vars
    /\ [](apc = "phase" => phase \in 1..Len(phases))
    /\ []((apc = "done" /\ ret # NoCalibration) => phase = Len(phases))
    /\ [](phase < Len(phases) => rest_max_scores = <<>>)
    /\ []((apc = "phase" /\ Len(rest_max_scores) < MaxRestWindows) =>
             ENABLED (CalibrationTurn /\ scores' # <<>>))
    /\ [][CalibrationTurn =>
             IF phase = Len(phases) /\ scores' # <<>>
             THEN rest_max_scores' = Append(rest_max_scores, MaxOf(scores'))
             ELSE rest_max_scores' = rest_max_scores]_vars
    /\ [][(apc = "phase" /\ ~CalibrationTurn) =>
             rest_max_scores' = rest_max_scores]_vars

\* The rest phase has retained two different maxima, the last from the
\* scores of the turn just made.
C19_Witness ==
    /\ apc = "phase"
    /\ phase = Len(phases)
    /\ Len(rest_max_scores) = 2
    /\ rest_max_scores[1] # rest_max_scores[2]
    /\ scores # <<>>
    /\ rest_max_scores[2] = MaxOf(scores)

----------------------------------------------------------------------------
\* Claims about the power-sum method.

\* The window reduced along the channels, one value per sample: the sum of
\* each row, n_channels times its mean.
MeanAxis1(mat) ==
    [t \in 1..NSamples(mat) |->
        SumTo([c \in 0..(NChannels(mat) - 1) |-> mat[t][c + 1]],
              NChannels(mat) - 1)]

\* The scores of the power-sum method on the series sig.
ScoresOn(sig) ==
    [j \in 1..Len(args.freqs_hz) |->
        power_at_frequency(sig, args.fs, args.freqs_hz[j], args.tol2,
                           args.use_second_harmonic)]

\* C14 as stated: the series the power-sum method takes the spectrum of has
\* one value per time sample, the channels of that sample averaged (here
\* summed), and the scores are the band sums of the spectrum of that series.
C14_Original ==
    (apc = "done") =>
        /\ Len(ret.ch_series) = NSamples(args.filtered)
        /\ ret.ch_series = MeanAxis1(args.filtered)
        /\ ret.scores = ScoresOn(MeanAxis1(args.filtered))

\* C15 as stated: on the synthetic window of the trial (half a second or more
\* at 250 Hz, a 10 Hz sinusoid of amplitude 50 plus noise, targets 8, 10 and
\* 12 Hz, tolerance 0.5 Hz) the power-sum detector selects index 1.
C15_Original ==
    (apc = "done" /\ args \in TrialInputs) => ret.idx = 1

----------------------------------------------------------------------------
\* Claims about the canonical-correlation method.

\* C16: every score is between 0 and cca_components (times the unit); the
\* array r of the last _cca_correlation holds values between 0 and 1, largest
\* first, and the score it gave is the sum of its first cca_components
\* values, or of all of them when it holds fewer.
C16_ScoreRange ==
    /\ apc \in {"loop", "done"} =>
          \A j \in 1..Len(scores) :
              scores[j] >= 0 /\ scores[j] <= args.cca_components * ClipHigh
    /\ (apc = "loop" /\ scores # <<>>) =>
          /\ \A j \in 1..Len(ret.r) : ret.r[j] >= 0 /\ ret.r[j] <= ClipHigh
          /\ \A j \in 1..(Len(ret.r) - 1) : ret.r[j] >= ret.r[j + 1]
          /\ Len(ret.r) >= 1
          /\ scores[Len(scores)] =
                 SumFirst(ret.r, Min(args.cca_components, Len(ret.r)))
          /\ \A m \in 1..Len(ret.r) :
                 m <= args.cca_components =>
                     scores[Len(scores)] >= SumFirst(ret.r, m)

\* Two components, the SVD returned a value above 1 and one below: the score
\* is 1 plus the second value.
C16_Witness ==
    /\ apc = "loop"
    /\ args.cca_components = 2
    /\ scores # <<>>
    /\ ret.outcome.fault = "none"
    /\ ret.outcome.sv = <<MaxSingular, 1>>
    /\ scores[Len(scores)] = ClipHigh + 1

\* C17 as stated: no exception leaves the classification, a target whose
\* square root, inversion or SVD faulted scores 0 and the loop goes on to the
\* other targets; a window of zeros gives scores of 0.
C17_Original ==
    /\ apc # "raised"
    /\ (apc = "loop" /\ scores # <<>> /\ ret.outcome.fault # "none") =>
          scores[Len(scores)] = 0
    /\ (apc = "done" /\ args.zero_window) =>
          \A j \in 1..Len(ret.scores) : ret.scores[j] = 0

----------------------------------------------------------------------------
\* Claims about the band-limiting step.

\* The normalized cutoff hz / (fs / 2) lies in the open interval (0, 1).
InUnitInterval(hz, fs) ==
    0 < 2 * hz /\ 2 * hz < fs

\* C18 as stated: the input is returned unchanged whenever low_hz >= high_hz
\* or a normalized cutoff lies outside (0, 1), and the filter is applied only
\* when 0 < low_hz / (fs / 2) < high_hz / (fs / 2) < 1.
C18_Original ==
    (apc = "done") =>
        (ret.filtered <=>
            /\ args.low_hz < args.high_hz
            /\ InUnitInterval(args.low_hz, args.fs)
            /\ InUnitInterval(args.high_hz, args.fs))

\* C18 amended: the normalized low cutoff is raised to 0.01 and the high one
\* lowered to 0.99; the input is returned unchanged exactly when the clamped
\* low cutoff is not below the clamped high one, which covers every
\* low_hz >= high_hz; otherwise the filter is applied, with clamped cutoffs
\* 0.01 <= low < high <= 0.99, also when a cutoff as given lies outside
\* (0, 1).
C18_ClampedPassThrough ==
    (apc = "done") =>
        /\ args.low_hz >= args.high_hz => ~ret.filtered
        /\ ret.filtered =>
              /\ LowClamp * args.fs <= ret.low
              /\ ret.low < ret.high
              /\ ret.high <= HighClamp * args.fs
        /\ ret.filtered <=>
              /\ args.low_hz < args.high_hz
              /\ 200 * args.high_hz > LowClamp * args.fs
              /\ 200 * args.low_hz < HighClamp * args.fs
        /\ (InUnitInterval(args.low_hz, args.fs)
              /\ InUnitInterval(args.high_hz, args.fs)
              /\ ret.filtered) =>
                 ret.low = 200 * args.low_hz /\ ret.high = 200 * args.high_hz

\* The filter is applied though the low cutoff is 0 and the high cutoff is
\* at the Nyquist frequency: both are clamped.
C18_Witness ==
    /\ apc = "done"
    /\ args.low_hz = 0
    /\ 2 * args.high_hz = args.fs
    /\ ret.filtered
    /\ ret.low = LowClamp * args.fs
    /\ ret.high = HighClamp * args.fs

----------------------------------------------------------------------------
\* Claims about the teardown.

\* The device has stopped calling back: the stream was started, is stopped,
\* and no callback is in hand.
Silent == Opened /\ ~Streaming /\ wpc = "idle"

\* C20: disconnect leaves the contents of the buffer as they are and stops
\* the stream; the buffer changes only in the appends of a callback, so it
\* stays as it is, for good, once the device has stopped calling back;
\* a get_recent in hand then completes with the last n entries of the buffer,
\* a later one can be made and returns what the buffer gives for its
\* argument, the same window at every call.
C20_StaleButValid ==
    /\ [][Disconnect =>
            /\ data' = data
            /\ timestamps' = timestamps
            /\ ~Streaming']_vars
    /\ [][(data' # data \/ timestamps' # timestamps) =>
            (OnChunk \/ OnChunkAppendData \/ OnChunkAppendTs)]_vars
    /\ [][Silent =>
            /\ Silent'
            /\ data' = data
            /\ timestamps' = timestamps
            /\ log' = log]_vars
    /\ [](rpc \in {"len", "copy", "ret"} => ENABLED Reader)
    /\ []((Silent /\ rpc = "idle") => ENABLED GetRecentCheck)
    /\ [][(Silent /\ rpc = "copy" /\ rpc' = "ret") =>
            /\ result'.ok
            /\ 1 <= n /\ n <= Len(data)
            /\ result'.win = WindowOf(data, n)]_vars
    /\ []((Silent /\ rpc = "ret" /\ newest_at_call = Len(log)) =>
            /\ result = GetRecent(seconds2)
            /\ (data # <<>> /\ RequestedSamples(seconds2) > 0) => result.ok)

\* After a disconnect of a stream whose buffer had already dropped entries, a
\* get_recent on the silent buffer has returned the window it asked for.
C20_Witness ==
    /\ cpc = "closed"
    /\ ~is_connected
    /\ Silent
    /\ rpc = "ret"
    /\ newest_at_call = Len(log)
    /\ Len(log) > Len(data)
    /\ result.ok
    /\ Len(result.win) = Min(RequestedSamples(seconds2), Len(data))

----------------------------------------------------------------------------
\* Claims about the smoothing history.

\* The raw labels a cycle can append: a target index, or 3 for rest.
RawLabels == (0..(NumTargets - 1)) \cup {RestLabel}

\* C21: a cycle that scores a window appends exactly one raw label at the end
\* of the history and, if that makes more than HistoryCap labels, drops the
\* oldest one; a cycle that scores nothing leaves the history as it is; so
\* the history holds the last min(cycles, HistoryCap) raw labels, in order.
C21_HistoryWindow ==
    /\ [](Len(history) <= HistoryCap)
    /\ [](Len(history) = Min(cycles, HistoryCap))
    /\ [](\A j \in 1..Len(history) : history[j] \in RawLabels)
    /\ [][CycleClassify =>
            IF EnoughData(m_ok, m_rows)
            THEN /\ cycles' = cycles + 1
                 /\ \E lab \in RawLabels :
                       history' = LastN(Append(history, lab), HistoryCap)
            ELSE /\ cycles' = cycles
                 /\ history' = history]_vars
    /\ [][history' # history => CycleClassify \/ MainStart]_vars

\* More labels than the history holds have been appended, and it is full.
C21_Witness ==
    /\ cycles > HistoryCap
    /\ Len(history) = HistoryCap
    /\ history[1] # history[HistoryCap]

----------------------------------------------------------------------------
\* Claims about the marker sender.

\* C22 as stated: marker_counter is the number of markers sent, a send that
\* returns a value other than 0 returns the counter, and a send counts only
\* if its marker went out.
C22_Original ==
    /\ sender.marker_counter = sender.delivered
    /\ ret # 0 => ret = sender.marker_counter

----------------------------------------------------------------------------
\* Claims about the trial generator.

\* The number of trials given block b.
BlockCount(block, b) ==
    Cardinality({t \in 1..Len(block) : block[t] = b})

\* C23 as stated: for every num_blocks >= 1 and every number of trials,
\* generate_trials returns, every block number is in 1..num_blocks, the
\* numbers never decrease along the trials, all num_blocks blocks are used,
\* and each block has exactly total_trials // num_blocks trials.
C23_Original ==
    (apc = "done") =>
        /\ ~ret.raised
        /\ Len(ret.block) = args.n_trials
        /\ \A t \in 1..Len(ret.block) : ret.block[t] \in 1..args.num_blocks
        /\ \A t \in 1..(Len(ret.block) - 1) : ret.block[t] <= ret.block[t + 1]
        /\ \A b \in 1..args.num_blocks :
              BlockCount(ret.block, b) = args.n_trials \div args.num_blocks

----------------------------------------------------------------------------
\* Claims about the calibration and the loop after it.

\* C24: a calibration left by QUIT or ESC, in any phase, and one that ends
\* with no rest score, return None; main then has no rest threshold, and every
\* label its loop appends to the history is a target index, and so is every
\* decision it reports.
C24_NoThresholdNoRest ==
    /\ [][CalibrationEscape => ret' = NoCalibration]_vars
    /\ [](apc = "phase" => ENABLED CalibrationEscape)
    /\ [][(CalibrationReturn /\ rest_max_scores = <<>>) =>
            ret' = NoCalibration]_vars
    /\ [][MainAfterCalibration =>
            (rest_threshold_set' <=> ret # NoCalibration)]_vars
    /\ []((mpc # "boot" /\ ~rest_threshold_set) =>
            /\ DetectorOutputs = {idx \in UngatedOutputs : idx # RestIdx}
            /\ \A j \in 1..Len(history) : history[j] \in 0..(NumTargets - 1)
            /\ detected_idx \in (0..(NumTargets - 1)) \cup {Undecided})

\* After a calibration that returned None the loop has scored HistoryCap
\* windows and reports a target.
C24_Witness ==
    /\ mpc = "loop"
    /\ rest_enabled
    /\ ~rest_threshold_set
    /\ Len(history) = HistoryCap
    /\ detected_idx \in 0..(NumTargets - 1)

----------------------------------------------------------------------------
\* Claims about the parameters of the detector.

\* C25 as stated: for every configuration the calibration calls the detector
\* with the method and the parameters the main loop calls it with.
C25_Original ==
    (apc = "done") => ret.calibration = ret.live

----------------------------------------------------------------------------
\* Claims about the rows of the stream buffer.

\* C26 as stated: once connect() has returned, every row appended since the
\* callback was registered holds, for every channel whose stream column
\* connect() resolved, the value the device delivered in that column for that
\* sample; 0 stands only for a channel without a resolved column.  (In the
\* model every chunk has all NumCols columns and chunk_size samples.)
C26_Original ==
    (cpc = "done") =>
        \A k \in 1..Len(log) :
            \A c \in 1..Len(channels) :
                ~Degraded(channels[c]) =>
                    log[k].row[c] =
                        DevVal(chunk_index_map[channels[c]], log[k].seq)

\* C30 as stated: the timestamps in the buffer never decrease from one entry
\* to the next, whatever the sizes of the chunks and the times at which they
\* arrive.
C30_Original ==
    \A j \in 1..(Len(timestamps) - 1) : timestamps[j] <= timestamps[j + 1]

----------------------------------------------------------------------------
\* Claims about the buffers of the BrainAccessHandler.

\* C28 as stated, and read in its favour for a main thread that is between
\* its two clear() calls: whenever no callback is in hand and the main thread
\* is in neither start_recording nor the save, eeg_data and timestamps have
\* the same length and entry j of one is of the sample entry j of the other
\* is of.
C28_Original ==
    (handler # <<>> /\ handler.cb = "idle" /\ handler.rec = "idle") =>
        /\ Len(handler.eeg_data) = Len(handler.timestamps)
        /\ \A j \in 1..Len(handler.eeg_data) :
              handler.eeg_data[j] = handler.timestamps[j]

----------------------------------------------------------------------------
\* Claims about the device core library.

\* C29 as stated: whenever is_connected is true the last of the calls
\* ba_init() and ba_close() was ba_init(), also after a connect() that
\* follows a disconnect().
C29_Original ==
    is_connected => core.open

----------------------------------------------------------------------------
\* Claims about the main loop and the arrival of samples.

\* C27 as stated, by what it requires of the samples delivered: a decision
\* needs smooth_count scored cycles that agree; the first of them needs a
\* window of half a second, and each of the others at least one sample the
\* cycle before it had not seen; so no decision is reported before
\* smooth_count - 1 samples have arrived on top of half a second of them.
C27_Original ==
    (mpc # "boot" /\ detected_idx # Undecided) =>
        2 * (Len(log) - (smooth_count - 1)) >= SamplingRate

====
